---- MODULE Spec2Model ----
(***************************************************************************)
(* Model of the AthenaK dynamical-GR primitive recovery engine             *)
(* (PrimitiveSolverHydro: PrimToCons / ConsToPrim) and of the scalar       *)
(* upwinding of the flux sweeps (DynGRPS::CalcFluxes).                     *)
(*                                                                         *)
(* Reals are modelled by integers plus one non-finite value NaN that       *)
(* stands for every IEEE value for which isfinite() is false.  Fixtures    *)
(* are chosen so that every division the code performs on valid data is    *)
(* exact.  The spatial metric is diagonal, g3d = <<g11, g22, g33>>.        *)
(***************************************************************************)
EXTENDS Integers, FiniteSets, Sequences, TLC

----------------------------------------------------------------------------
(* Floating point values                                                   *)

\* the non-finite value: !isfinite(x)
NaN == 0 - 1000

isfinite(x) == x # NaN

Mul(a, b) == IF a = NaN \/ b = NaN THEN NaN ELSE a * b

Add(a, b) == IF a = NaN \/ b = NaN THEN NaN ELSE a + b

Sub(a, b) == IF a = NaN \/ b = NaN THEN NaN ELSE a - b

\* a/b: division by zero gives inf or NaN, both non-finite
Div(a, b) ==
  IF a = NaN \/ b = NaN \/ b = 0 THEN NaN
  ELSE IF (a >= 0) = (b > 0) THEN (IF a >= 0 THEN a ELSE 0 - a) \div (IF b > 0 THEN b ELSE 0 - b)
  ELSE 0 - ((IF a >= 0 THEN a ELSE 0 - a) \div (IF b > 0 THEN b ELSE 0 - b))

\* a < b: every comparison with a NaN is false
Lt(a, b) == a # NaN /\ b # NaN /\ a < b

\* a >= b: every comparison with a NaN is false
Ge(a, b) == a # NaN /\ b # NaN /\ a >= b

\* sqrt(x): NaN for a negative argument
Sqrt(x) ==
  IF x = NaN \/ x < 0 THEN NaN ELSE CHOOSE r \in 0..x : r * r = x

\* 0.5*(a + b)
Half(a, b) == Div(Add(a, b), 2)

----------------------------------------------------------------------------
(* Sizes and parameters                                                    *)

\* number of mesh cells of the pack (one strip of cells, indexed by i)
NCells == 2

Cells == 0..(NCells - 1)

\* number of passive scalars (pmhd->nscalars)
nscal == 2

Scalars == 1..nscal

\* how many ConsToPrim/PrimToCons calls the host issues in one run
MaxCalls == 2

\* baryon mass of the equation of state (eos.GetBaryonMass())
mb == 2

\* number-density floor of the equation of state ("dfloor")
n_atm == 1

\* temperature floor of the equation of state ("tfloor")
T_atm == 1

\* default density inside an excised region (coord_data.dexcise)
dexcise_ == 4

\* default pressure inside an excised region (coord_data.pexcise)
pexcise_ == 3

Zero3 == <<0, 0, 0>>

----------------------------------------------------------------------------
(* The pluggable policy: Primitive::PrimitiveSolver<EOSPolicy, ErrorPolicy> *)
(* (ideal gas, reset-floor).  A solver-side primitive state is             *)
(* [n, v, p, T, Y] (number density, velocity, pressure, temperature,       *)
(* scalar concentrations); a solver-side conserved state is                *)
(* [D, S, tau, Yd].  Both are undensitized.                                *)

\* Primitive::GetDeterminant for a diagonal metric
GetDeterminant(g3d) == Mul(g3d[1], Mul(g3d[2], g3d[3]))

\* Primitive::SquareVector for a diagonal metric
SquareVector(u, g3d) ==
  Add(Mul(g3d[1], Mul(u[1], u[1])),
      Add(Mul(g3d[2], Mul(u[2], u[2])), Mul(g3d[3], Mul(u[3], u[3]))))

\* eos.GetTemperatureFromP
GetTemperatureFromP(n, p) == Div(p, n)

\* eos.GetPressure
GetPressure(n, T) == Mul(n, T)

\* eos.ApplyPrimitiveFloor: reset to the atmosphere below the density floor,
\* raise the pressure below the temperature floor; concentrations are kept
ApplyPrimitiveFloor(pt) ==
  IF Lt(pt.n, n_atm)
  THEN [floor |-> TRUE,
        pt |-> [pt EXCEPT !.n = n_atm, !.v = Zero3,
                          !.p = GetPressure(n_atm, T_atm), !.T = T_atm]]
  ELSE IF Lt(pt.T, T_atm)
  THEN [floor |-> TRUE,
        pt |-> [pt EXCEPT !.p = GetPressure(pt.n, T_atm), !.T = T_atm]]
  ELSE [floor |-> FALSE, pt |-> pt]

\* ps.PrimToCon: the forward transformation
PrimToCon(pt, b, g3d) ==
  LET D == Mul(mb, pt.n)
  IN  [D   |-> D,
       S   |-> [i \in 1..3 |-> Mul(D, Mul(g3d[i], pt.v[i]))],
       tau |-> Add(pt.p, SquareVector(b, g3d)),
       Yd  |-> [n \in Scalars |-> Mul(D, pt.Y[n])]]

\* the atmosphere the reset-floor policy falls back to
Atmosphere(Y) ==
  [n |-> n_atm, v |-> Zero3, p |-> GetPressure(n_atm, T_atm), T |-> T_atm, Y |-> Y]

\* Primitive::SolverResult
SolverResult(error, cons_floor, prim_floor, cons_adjusted) ==
  [error |-> error, cons_floor |-> cons_floor, prim_floor |-> prim_floor,
   cons_adjusted |-> cons_adjusted]

\* ps.ConToPrim: the inverse transformation with the reset-floor policy.
\* fail_prim / fail_cons are the policy's flooring-failure flags: with a flag
\* set, the corresponding floor is reported as an error instead of applied.
ConToPrim(ct, b, g3d, fail_prim, fail_cons) ==
  LET Y      == [n \in Scalars |-> Div(ct.Yd[n], ct.D)]
      bsq    == SquareVector(b, g3d)
      failed(e, cf) ==
          [prim |-> Atmosphere(Y), cons |-> PrimToCon(Atmosphere(Y), b, g3d),
           result |-> SolverResult(e, cf, FALSE, TRUE)]
      nans   == ~isfinite(ct.D) \/ ~isfinite(ct.tau) \/ ~isfinite(bsq)
                  \/ \E i \in 1..3 : ~isfinite(ct.S[i])
      cfloor == Lt(ct.D, Mul(mb, n_atm))
      c1     == IF cfloor THEN PrimToCon(Atmosphere(Y), b, g3d) ELSE ct
      raw    == [n |-> Div(c1.D, mb),
                 v |-> [i \in 1..3 |-> Div(Div(c1.S[i], c1.D), g3d[i])],
                 p |-> Sub(c1.tau, bsq),
                 T |-> GetTemperatureFromP(Div(c1.D, mb), Sub(c1.tau, bsq)),
                 Y |-> Y]
      fl     == ApplyPrimitiveFloor(raw)
  IN  IF nans THEN failed("NANS_IN_CONS", FALSE)
      ELSE IF cfloor /\ fail_cons THEN failed("CONS_FLOOR", TRUE)
      ELSE IF Lt(c1.tau, bsq) THEN failed("MAG_TOO_BIG", cfloor)
      ELSE IF fl.floor /\ fail_prim THEN failed("PRIM_FLOOR", cfloor)
      ELSE [prim |-> fl.pt,
            cons |-> IF fl.floor THEN PrimToCon(fl.pt, b, g3d) ELSE c1,
            result |-> SolverResult("SUCCESS", cfloor, fl.floor, fl.floor)]

----------------------------------------------------------------------------
(* State                                                                   *)

VARIABLES
  prim,            \* primitive array: [d, v, p, s] per cell (IDN, IVX..IVZ, IPR, scalars)
  cons,            \* conserved array: [D, S, tau, Yd] per cell, densitized
  bcc0,            \* cell-centred magnetic field, densitized
  bfc,             \* face-centred magnetic field [x1f, x2f, x3f], densitized
  g_dd,            \* adm.g_dd: diagonal of the spatial metric per cell
  excise,          \* coord_data.bh_excise
  excision_floor,  \* pcoord->excision_floor mask
  fofc,            \* pmhd->fofc: first-order flux correction flags
  nfofc,           \* pmesh->ecounter.nfofc
  fail_prim,       \* policy flag: a primitive floor is a failure
  fail_cons,       \* policy flag: a conserved floor is a failure
  pc,              \* "idle", "p2c" (inside PrimToCons), "c2p" (inside ConsToPrim)
  call,            \* arguments of the running/last call: [op, il, iu, floors_only]
  todo,            \* cells of the parallel loop not yet processed
  nfloord_,        \* the reduction result accumulated so far
  saved,           \* the locals prim_failure, cons_failure of ConsToPrim
  klog,            \* per cell: what the kernel of the running/last call did there
  entry,           \* the arrays and flags as they were when the running/last call began
  prev,            \* the call before the running/last one: its arguments, entry and klog
  ncalls           \* number of calls issued

VARIABLES
  fpc,             \* CalcFluxes: "idle", "recon", "solve", "upwind", "advance", "fofc", "done"
  fdir,            \* the sweep direction being executed (1, 2, 3)
  fj,              \* the sweep index (j of the x2 loop, k of the x3 loop)
  scr,             \* the team's scratch buffers scr1..scr3: scalar concentrations
  flx,             \* uflx: per direction and face, [mass, scal]
  w0,              \* scalar concentrations of the cells along the sweep
  ndim,            \* 1 (one_d), 2 (two_d) or 3 (three_d)
  use_fofc,        \* pmhd->use_fofc
  fofc_ran,        \* FOFC(pdriver, stage) was called
  fstatus,         \* the TaskStatus CalcFluxes returned
  fofc_status,     \* how the FOFC pass ended: "none" (not run), "complete", "fail"
  swept            \* the directions whose sweep has finished

VARIABLES
  process,         \* "running", or "exited" after std::exit / exit
  pt_call,         \* the last per-point wave speed call: its name and arguments
  pt_out,          \* what that call returned: [lambda_p, lambda_m], <<>> if it did not return
  hydro,           \* the Hydro object under construction and its parameters
  psh              \* the PrimitiveSolverHydro object under construction

VARIABLES
  team_dir,        \* the sweep direction of the team's kernel (1, 2 or 3)
  team_scalars,    \* nvars > nhyd: passive scalars are present
  team_part,       \* per stage, the offset by which par_for_inner deals the lanes
                   \* of the pencil to the threads of the team
  team_recon,      \* recon_method_: the configured reconstruction method
  thr,             \* per thread of the team: its stage, sweep index, barriers reached
  tscr,            \* team scratch buffers: per buffer and lane, the index whose
                   \* reconstruction wrote it last
  tflx,            \* mass flux per sweep index and lane: "solved" once the solve wrote it
  tlog             \* per thread: what its last solve / upwind read saw

tvars == <<team_dir, team_scalars, team_part, team_recon, thr, tscr, tflx, tlog>>

VARIABLES
  gdim,            \* the dimensionality of the mesh: 1 (one_d), 2 (two_d), 3 (three_d)
  gscal,           \* nvars > nhyd in this call
  gdir,            \* the kernel CalcFluxes is running: 0 before the first, 1..3, 4 after the last
  gran,            \* the directions whose kernel was launched
  pending,         \* the teams of the running kernel that have not run yet
  fwr,             \* per element of the flux arrays: the writes of the Riemann solve and
                   \* of the scalar upwind, each as <<team, iteration>>
  swr              \* per team scratch allocation: the teams that wrote into it

gvars == <<gdim, gscal, gdir, gran, pending, fwr, swr>>

VARIABLES
  face,            \* an interface handed to the Riemann solver: wl, wr, bl, br, bx, metric
  conv             \* the left and the right conversion of the interface by PrimToConsPt

bvars == <<face, conv>>

VARIABLES
  dec,             \* the index range of a ConsToPrim call: nmb, il, iu, jl, ju, kl, ku
  iter,            \* the values of idx the parallel_reduce has still to run
  visits           \* the iterations run so far, each as <<idx, cell it decoded>>

dvars == <<dec, iter, visits>>

VARIABLES
  tl,              \* the TaskList: per task id its function, the id it depends on
                   \* (0: none) and whether it has started and completed
  added,           \* the vector of ids HydroAddTasks appends to
  addt             \* the HydroAddTasks call: its start argument, its position,
                   \* the ids AddTask returned, the list and vector as it found them

hvars == <<tl, added, addt>>

\* the state of the components that look at single kernels
kvars == <<gvars, bvars, dvars, hvars>>

pvars == <<pt_call, pt_out>>

cvars == <<hydro, psh>>

fvars == <<fpc, fdir, fj, scr, flx, w0, ndim, use_fofc, fofc_ran, fstatus,
           fofc_status, swept>>

rvars == <<prim, cons, bcc0, bfc, g_dd, excise, excision_floor, fofc, nfofc,
           fail_prim, fail_cons, pc, call, todo, nfloord_, saved, klog, entry,
           prev, ncalls>>

\* the state of the components other than the recovery engine and the flux stage
restRF == <<process, pvars, cvars, tvars, kvars>>

\* a cell the kernel has not touched in this call
NoLog ==
  [done |-> FALSE, result |-> SolverResult("NONE", FALSE, FALSE, FALSE),
   rootfinder |-> FALSE, excised |-> FALSE, floor |-> FALSE,
   cons_in |-> <<>>, b_in |-> <<>>, prim_out |-> <<>>, cons_out |-> <<>>,
   written |-> {}, report |-> {}, dump |-> <<>>]

NoCall == [op |-> "none", il |-> 0, iu |-> 0, floors_only |-> FALSE]

Range(c) == c.il .. c.iu

----------------------------------------------------------------------------
(* Fixtures the initial grid is drawn from                                 *)

\* primitive states a problem generator may set
PrimFix ==
  << [d |-> 4, v |-> <<1, 0, 0>>, p |-> 96, s |-> <<1, 3>>],    \* valid
    [d |-> 2, v |-> Zero3,       p |-> 1, s |-> <<0, 1>>],     \* valid, exactly at the floors
    [d |-> 1, v |-> <<1, 0, 0>>, p |-> 6, s |-> <<1, 3>>],     \* below the density floor
    [d |-> 4, v |-> <<0, 1, 0>>, p |-> 0, s |-> <<NaN, 1>> ] >> \* below the temperature floor, one scalar NaN

\* primitive array left over from an earlier step
StalePrim == [d |-> 6, v |-> <<0, 0, 1>>, p |-> 5, s |-> <<2, 2>>]

\* densitized conserved states a time update may leave
ConsFix ==
  << [D |-> 8,     S |-> <<32, 0, 0>>, tau |-> 168, Yd |-> <<8, 24>>],  \* valid
    [D |-> 0 - 4, S |-> Zero3,        tau |-> 168, Yd |-> <<4, 8>>],   \* negative density
    [D |-> 8,     S |-> Zero3,        tau |-> 0,   Yd |-> <<8, 8>>],   \* no pressure left
    [D |-> 8,     S |-> Zero3,        tau |-> NaN, Yd |-> <<8, 8>>] >> \* NaN energy

\* conserved array not yet computed
StaleCons == [D |-> 2, S |-> <<2, 2, 2>>, tau |-> 2, Yd |-> <<2, 2>>]

\* a grid whose cell c holds fixture k + c (cyclically) of the list fix
Grids(fix) ==
  { [c \in Cells |-> fix[((k + c) % Len(fix)) + 1]] : k \in 0..(Len(fix) - 1) }

\* the index ranges (il, iu) the host passes
Ranges == { <<il, NCells - 1>> : il \in Cells }

\* metrics: det g = 4 everywhere, or one cell with det g = 0, or with det g < 0
MetricFix ==
  { [c \in Cells |-> <<4, 1, 1>>],
    [c \in Cells |-> IF c = 0 THEN <<0, 1, 1>> ELSE <<4, 1, 1>>],
    [c \in Cells |-> IF c = 0 THEN <<4, 1, 1>> ELSE <<0 - 4, 1, 1>>] }

\* face fields: none, or a field varying along x1 with a uniform x3 component
FaceFix ==
  { [x1f |-> [f \in 0..NCells |-> 0],
     x2f |-> [c \in Cells |-> <<0, 0>>], x3f |-> [c \in Cells |-> <<0, 0>>]],
    [x1f |-> [f \in 0..NCells |-> IF f = 0 THEN 0 ELSE 8],
     x2f |-> [c \in Cells |-> <<0, 0>>], x3f |-> [c \in Cells |-> <<8, 8>>]] }

\* mutation of FaceAverage: the lower face alone
FaceAverage_lower(f, c) == << f.x1f[c], f.x2f[c][1], f.x3f[c][1] >>

\* the cell-centred field that is the average of the faces of cell c
FaceAverage(f, c) ==
  << Half(f.x1f[c], f.x1f[c + 1]),
     Half(f.x2f[c][1], f.x2f[c][2]),
     Half(f.x3f[c][1], f.x3f[c][2]) >>

----------------------------------------------------------------------------
(* PrimitiveSolverHydro: helpers shared by the kernels                     *)

\* mutation of Densitize: the factor is applied twice
Densitize_twice(x, sdetg) == Mul(Mul(x, sdetg), sdetg)

\* x*sdetg: densitize a solver-side value
Densitize(x, sdetg) == Mul(x, sdetg)

\* mutation of Undensitize: multiplies by sdetg instead of its reciprocal
Undensitize_wrong(x, sdetg) == Mul(x, sdetg)

\* x*isdetg with isdetg = 1.0/sdetg: undensitize an array value
Undensitize(x, sdetg) == Div(x, sdetg)

\* the densitized conserved state stored into cons(m, ., k, j, i)
DensitizeCons(ct, sdetg) ==
  [D   |-> Densitize(ct.D, sdetg),
   S   |-> [i \in 1..3 |-> Densitize(ct.S[i], sdetg)],
   tau |-> Densitize(ct.tau, sdetg),
   Yd  |-> [n \in Scalars |-> Densitize(ct.Yd[n], sdetg)]]

\* the solver-side conserved state read from cons(m, ., k, j, i)
ExtractCons(u, sdetg) ==
  [D   |-> Undensitize(u.D, sdetg),
   S   |-> [i \in 1..3 |-> Undensitize(u.S[i], sdetg)],
   tau |-> Undensitize(u.tau, sdetg),
   Yd  |-> [n \in Scalars |-> Undensitize(u.Yd[n], sdetg)]]

\* the solver-side primitive state read from prim(m, ., k, j, i)
ExtractPrim(w) ==
  [n |-> Div(w.d, mb), v |-> w.v, p |-> w.p,
   T |-> GetTemperatureFromP(Div(w.d, mb), w.p), Y |-> w.s]

\* mutation of StorePrim: the density is stored without the baryon mass
StorePrim_nomass(pt) == [d |-> pt.n, v |-> pt.v, p |-> pt.p, s |-> pt.Y]

\* the values PrimToCons copies back into prim(m, ., k, j, i) after a floor
StorePrim(pt) == [d |-> Mul(pt.n, mb), v |-> pt.v, p |-> pt.p, s |-> pt.Y]

\* the values ConsToPrim copies into prim(m, ., k, j, i): the statement in the
\* scalar loop has no effect, the scalars of the array keep their old values
CopyPrim(pt, w) == [d |-> Mul(pt.n, mb), v |-> pt.v, p |-> pt.p, s |-> w.s]

\* CheckForConservedNaNs: D, Sx, Sy, Sz and tau are tested
CheckForConservedNaNs(ct) ==
  ~isfinite(ct.D) \/ ~isfinite(ct.S[1]) \/ ~isfinite(ct.S[2])
    \/ ~isfinite(ct.S[3]) \/ ~isfinite(ct.tau)

\* mutation of InExcision: the mask is never consulted
InExcision_ignored(c) == FALSE

\* the cell is inside the excised region
InExcision(c) == excise /\ excision_floor[c]

\* the defaults substituted in an excised cell; every scalar gets the ratio
\* of the first scalar density to the mass density
ExcisedPrim(ct) ==
  [n |-> Div(dexcise_, mb), v |-> Zero3, p |-> pexcise_,
   T |-> GetTemperatureFromP(Div(dexcise_, mb), pexcise_),
   Y |-> [n \in Scalars |-> Div(ct.Yd[1], ct.D)]]

\* mutation of TakeFofcBranch: a failed cell is treated like any other
TakeFofcBranch_never(result, floors_only) == FALSE

\* the failure branch of ConsToPrim is taken: flag and count, write nothing
TakeFofcBranch(result, floors_only) == result.error # "SUCCESS" /\ floors_only

\* mutation of InvokesRootFinder: the solve runs in every cell
InvokesRootFinder_always(c) == TRUE

\* the cell takes one of the branches that call ps.ConToPrim
InvokesRootFinder(c) == ~InExcision(c)

\* ErrorToString: the name printed for an error of the solve
ErrorToString(e) ==
  IF e \in {"SUCCESS", "RHO_TOO_BIG", "RHO_TOO_SMALL", "NANS_IN_CONS", "MAG_TOO_BIG",
            "BRACKETING_FAILED", "NO_SOLUTION"}
  THEN e ELSE "OTHER"

\* mutation of ErrorDump: nothing is printed
ErrorDump_silent(e, c, ct, g3d) == <<>>

\* the diagnostic printed for a failed solve outside a floor-testing pass:
\* error name, location, cons_pt_old (D, S, tau) and the metric
ErrorDump(e, c, ct, g3d) ==
  [kind |-> ErrorToString(e), cell |-> c, D |-> ct.D, S |-> ct.S, tau |-> ct.tau,
   detg |-> GetDeterminant(g3d), g_dd |-> g3d]

\* the conserved variables are copied back
CopyConsBack(result) == result.cons_floor \/ result.cons_adjusted

----------------------------------------------------------------------------
(* PrimToCons                                                              *)

\* the host calls PrimToCons(prim, bcc0, cons, il, iu, ...)
P2C_Begin(il, iu) ==
  /\ pc = "idle" /\ ncalls < MaxCalls
  /\ UNCHANGED <<fvars, restRF>>
  /\ pc' = "p2c"
  /\ prev' = [call |-> call, entry |-> entry, klog |-> klog]
  /\ call' = [op |-> "PrimToCons", il |-> il, iu |-> iu, floors_only |-> FALSE]
  /\ todo' = il..iu
  /\ klog' = [c \in Cells |-> NoLog]
  /\ entry' = [prim |-> prim, cons |-> cons, bcc0 |-> bcc0, fofc |-> fofc,
               nfofc |-> nfofc, fail_prim |-> fail_prim, fail_cons |-> fail_cons]
  /\ ncalls' = ncalls + 1
  /\ UNCHANGED <<prim, cons, bcc0, bfc, g_dd, excise, excision_floor, fofc, nfofc,
                 fail_prim, fail_cons, nfloord_, saved>>

\* mutation of WritesPrimBack: the primitives are copied back in every case
WritesPrimBack_always(floor) == TRUE

\* "if (floor)" / "if (floored)": the primitives are copied back into the
\* array they were read from only if ApplyPrimitiveFloor reported a change
WritesPrimBack(floor) == floor

\* one iteration (m, k, j, i) of the par_for "pshyd_prim2cons"
P2C_Kernel(c) ==
  /\ pc = "p2c" /\ c \in todo
  /\ UNCHANGED <<fvars, restRF>>
  /\ LET g3d     == g_dd[c]
         sdetg   == Sqrt(GetDeterminant(g3d))
         b       == [i \in 1..3 |-> Div(bcc0[c][i], sdetg)]
         fl      == ApplyPrimitiveFloor(ExtractPrim(prim[c]))
         cons_pt == PrimToCon(fl.pt, b, g3d)
         nans    == CheckForConservedNaNs(cons_pt)
     IN  /\ cons' = [cons EXCEPT ![c] = DensitizeCons(cons_pt, sdetg)]
         /\ prim' = IF WritesPrimBack(fl.floor)
                    THEN [prim EXCEPT ![c] = StorePrim(fl.pt)] ELSE prim
         /\ klog' = [klog EXCEPT ![c] =
                       [NoLog EXCEPT !.done = TRUE, !.floor = fl.floor,
                                     !.b_in = b, !.prim_out = fl.pt,
                                     !.cons_out = cons_pt,
                                     !.written = {"cons"} \cup
                                                 (IF WritesPrimBack(fl.floor)
                                                  THEN {"prim"} ELSE {}),
                                     !.report = IF nans THEN {"nan"} ELSE {}]]
  /\ todo' = todo \ {c}
  /\ UNCHANGED <<bcc0, bfc, g_dd, excise, excision_floor, fofc, nfofc, fail_prim,
                 fail_cons, pc, call, nfloord_, saved, entry, prev, ncalls>>

\* every iteration has run: PrimToCons returns
P2C_End ==
  /\ pc = "p2c" /\ todo = {}
  /\ UNCHANGED <<fvars, restRF>>
  /\ pc' = "idle"
  /\ UNCHANGED <<prim, cons, bcc0, bfc, g_dd, excise, excision_floor, fofc, nfofc,
                 fail_prim, fail_cons, call, todo, nfloord_, saved, klog, entry,
                 prev, ncalls>>

----------------------------------------------------------------------------
(* ConsToPrim                                                              *)

\* the value a policy flag has during the pass of a floors_only call
FlagDuringPass(old) == TRUE

\* mutation of FlagAfterPass: the saved value is not put back
FlagAfterPass_keep(old, savedval) == old

\* the value a policy flag is given when a floors_only call returns
FlagAfterPass(old, savedval) == savedval

\* mutation of CounterAfterPass: the count replaces the counter
CounterAfterPass_overwrite(old, count) == count

\* what the call adds to the mesh-wide counter when it returns
CounterAfterPass(old, count) == old + count

\* the host calls ConsToPrim(cons, bfc, bcc0, prim, il, iu, ..., floors_only):
\* with floors_only the two flags are saved and set before the reduction
C2P_Begin(il, iu, fo) ==
  /\ pc = "idle" /\ ncalls < MaxCalls
  /\ UNCHANGED <<fvars, restRF>>
  /\ pc' = "c2p"
  /\ prev' = [call |-> call, entry |-> entry, klog |-> klog]
  /\ call' = [op |-> "ConsToPrim", il |-> il, iu |-> iu, floors_only |-> fo]
  /\ todo' = il..iu
  /\ nfloord_' = 0
  /\ klog' = [c \in Cells |-> NoLog]
  /\ entry' = [prim |-> prim, cons |-> cons, bcc0 |-> bcc0, fofc |-> fofc,
               nfofc |-> nfofc, fail_prim |-> fail_prim, fail_cons |-> fail_cons]
  /\ ncalls' = ncalls + 1
  /\ IF fo
     THEN /\ saved' = [prim_failure |-> fail_prim, cons_failure |-> fail_cons]
          /\ fail_prim' = FlagDuringPass(fail_prim)
          /\ fail_cons' = FlagDuringPass(fail_cons)
     ELSE UNCHANGED <<saved, fail_prim, fail_cons>>
  /\ UNCHANGED <<prim, cons, bcc0, bfc, g_dd, excise, excision_floor, fofc, nfofc>>

\* one iteration idx of the parallel_reduce "pshyd_c2p"
C2P_Kernel(c) ==
  /\ pc = "c2p" /\ c \in todo
  /\ UNCHANGED <<fvars, restRF>>
  /\ LET fo      == call.floors_only
         g3d     == g_dd[c]
         sdetg   == Sqrt(GetDeterminant(g3d))
         cons_pt == ExtractCons(cons[c], sdetg)
         bcc     == IF fo THEN bcc0[c] ELSE FaceAverage(bfc, c)
         b3u     == [i \in 1..3 |-> Undensitize(bcc[i], sdetg)]
         exc     == ~InvokesRootFinder(c)
         out     == IF exc
                    THEN [prim   |-> ExcisedPrim(cons_pt),
                          cons   |-> PrimToCon(ExcisedPrim(cons_pt), b3u, g3d),
                          result |-> SolverResult("SUCCESS", FALSE, FALSE, TRUE)]
                    ELSE ConToPrim(cons_pt, b3u, g3d, fail_prim, fail_cons)
         fail    == TakeFofcBranch(out.result, fo)
         back    == ~fail /\ CopyConsBack(out.result)
     IN  /\ bcc0' = IF fo THEN bcc0 ELSE [bcc0 EXCEPT ![c] = bcc]
         /\ fofc' = IF fail THEN [fofc EXCEPT ![c] = TRUE] ELSE fofc
         /\ nfloord_' = IF fail THEN nfloord_ + 1 ELSE nfloord_
         /\ prim' = IF fail THEN prim
                    ELSE [prim EXCEPT ![c] = CopyPrim(out.prim, prim[c])]
         /\ cons' = IF back
                    THEN [cons EXCEPT ![c] = DensitizeCons(out.cons, sdetg)]
                    ELSE cons
         /\ klog' = [klog EXCEPT ![c] =
                       [NoLog EXCEPT !.done = TRUE, !.result = out.result,
                                     !.rootfinder = ~exc, !.excised = exc,
                                     !.cons_in = cons_pt, !.b_in = b3u,
                                     !.prim_out = out.prim, !.cons_out = out.cons,
                                     !.written = (IF fo THEN {} ELSE {"bcc0"})
                                        \cup (IF fail THEN {"fofc"} ELSE {"prim"})
                                        \cup (IF back THEN {"cons"} ELSE {}),
                                     !.report = IF ~fail /\ out.result.error # "SUCCESS"
                                                THEN {out.result.error} ELSE {},
                                     !.dump = IF ~fail /\ out.result.error # "SUCCESS"
                                              THEN ErrorDump(out.result.error, c,
                                                             cons_pt, g3d)
                                              ELSE <<>>]]
  /\ todo' = todo \ {c}
  /\ UNCHANGED <<bfc, g_dd, excise, excision_floor, nfofc, fail_prim, fail_cons,
                 pc, call, saved, entry, prev, ncalls>>

\* the reduction is complete: with floors_only the flags are restored and the
\* count is added to the mesh-wide counter; ConsToPrim returns
C2P_End ==
  /\ pc = "c2p" /\ todo = {}
  /\ UNCHANGED <<fvars, restRF>>
  /\ pc' = "idle"
  /\ IF call.floors_only
     THEN /\ fail_prim' = FlagAfterPass(fail_prim, saved.prim_failure)
          /\ fail_cons' = FlagAfterPass(fail_cons, saved.cons_failure)
          /\ nfofc' = CounterAfterPass(nfofc, nfloord_)
     ELSE UNCHANGED <<fail_prim, fail_cons, nfofc>>
  /\ UNCHANGED <<prim, cons, bcc0, bfc, g_dd, excise, excision_floor, fofc, call,
                 todo, nfloord_, saved, klog, entry, prev, ncalls>>

----------------------------------------------------------------------------
(* The recovery engine driven by a host                                    *)

InitRecover ==
  /\ \/ prim \in Grids(PrimFix) /\ cons = [c \in Cells |-> StaleCons]
     \/ cons \in Grids(ConsFix) /\ prim = [c \in Cells |-> StalePrim]
  /\ g_dd \in MetricFix
  /\ bfc \in FaceFix
  /\ bcc0 \in {[c \in Cells |-> FaceAverage(bfc, c)], [c \in Cells |-> Zero3]}
  /\ excise \in BOOLEAN
  /\ excision_floor \in (IF excise THEN [Cells -> BOOLEAN] ELSE {[c \in Cells |-> FALSE]})
  /\ fofc = [c \in Cells |-> FALSE]
  /\ nfofc = 0
  /\ fail_prim \in BOOLEAN
  /\ fail_cons = FALSE
  /\ pc = "idle"
  /\ call = NoCall
  /\ todo = {}
  /\ nfloord_ = 0
  /\ saved = [prim_failure |-> FALSE, cons_failure |-> FALSE]
  /\ klog = [c \in Cells |-> NoLog]
  /\ entry = [prim |-> prim, cons |-> cons, bcc0 |-> bcc0, fofc |-> fofc,
              nfofc |-> nfofc, fail_prim |-> fail_prim, fail_cons |-> fail_cons]
  /\ prev = [call |-> NoCall, entry |-> entry, klog |-> klog]
  /\ ncalls = 0

NextRecover ==
  \/ \E r \in Ranges : P2C_Begin(r[1], r[2])
  \/ \E c \in Cells : P2C_Kernel(c)
  \/ P2C_End
  \/ \E r \in Ranges, fo \in BOOLEAN : C2P_Begin(r[1], r[2], fo)
  \/ \E c \in Cells : C2P_Kernel(c)
  \/ C2P_End

----------------------------------------------------------------------------
(* DynGRPS::CalcFluxes: one team per sweep direction, one face per index    *)

\* number of active cells along a sweep direction (je - js + 1)
NJ == 1

\* first active index (indcs.js, indcs.ks)
js == 1

je == js + NJ - 1

SweepIndices == (js - 1)..(je + 1)

\* rows of scalar concentrations a buffer or a cell may hold; the last one is
\* what uninitialised scratch memory or a broken cell may hold
ConcRows == { <<1, 2>>, <<2, 1>>, <<NaN, 0>> }

\* mass fluxes a Riemann solve may return
MassFluxes == { 0 - 2, 0, 3 }

\* the buffer bound to wl at sweep index j
WL(dir, j) == IF dir = 1 THEN 1 ELSE IF j % 2 = 0 THEN 2 ELSE 1

\* mutation of WLnext: the next-left state always goes to scr1
WLnext_fixed(dir, j) == 1

\* the buffer bound to wl_jp1 / wl_kp1 at sweep index j (wl itself in x1)
WLnext(dir, j) == IF dir = 1 THEN 1 ELSE IF j % 2 = 0 THEN 1 ELSE 2

\* the buffer bound to wr
WR == 3

\* mutation of UpwindFlux: the two sides are exchanged
UpwindFlux_swapped(mass, l, r) == IF Ge(mass, 0) THEN Mul(mass, r) ELSE Mul(mass, l)

\* the scalar flux: flx(IDN)*wl(n) if flx(IDN) >= 0.0, else flx(IDN)*wr(n)
UpwindFlux(mass, l, r) == IF Ge(mass, 0) THEN Mul(mass, l) ELSE Mul(mass, r)

\* the Riemann solve runs at this sweep index
SolveRuns(dir, j) == dir = 1 \/ j > js - 1

\* CalcFluxes(pdriver, stage) is called
CF_Begin ==
  /\ fpc = "idle"
  /\ UNCHANGED <<rvars, restRF>>
  /\ fpc' = "recon" /\ fdir' = 1 /\ fj' = js
  /\ UNCHANGED <<scr, flx, w0, ndim, use_fofc, fofc_ran, fstatus, fofc_status, swept>>

\* reconstruction: x1 writes wl and wr, x2/x3 write wl_jp1 (wl_kp1) and wr;
\* then the team barrier
CF_Reconstruct ==
  /\ fpc = "recon"
  /\ UNCHANGED <<rvars, restRF>>
  /\ scr' = [scr EXCEPT ![WLnext(fdir, fj)] = IF fdir = 1 THEN w0[fj - 1] ELSE w0[fj],
                        ![WR] = w0[fj]]
  /\ fpc' = "solve"
  /\ UNCHANGED <<fdir, fj, flx, w0, ndim, use_fofc, fofc_ran, fstatus, fofc_status, swept>>

\* the Riemann solve writes the mass flux of the face (skipped at the first
\* index of the x2 and x3 sweeps); then the team barrier
CF_Solve ==
  /\ fpc = "solve"
  /\ UNCHANGED <<rvars, restRF>>
  /\ IF SolveRuns(fdir, fj)
     THEN \E mass \in MassFluxes : flx' = [flx EXCEPT ![fdir][fj].mass = mass]
     ELSE UNCHANGED flx
  /\ fpc' = "upwind"
  /\ UNCHANGED <<fdir, fj, scr, w0, ndim, use_fofc, fofc_ran, fstatus, fofc_status, swept>>

\* fluxes of the scalars from the mass flux of the face and wl, wr
CF_ScalarUpwind ==
  /\ fpc = "upwind"
  /\ UNCHANGED <<rvars, restRF>>
  /\ flx' = [flx EXCEPT ![fdir][fj].scal =
               [n \in Scalars |-> UpwindFlux(flx[fdir][fj].mass,
                                             scr[WL(fdir, fj)][n], scr[WR][n])]]
  /\ fpc' = "advance"
  /\ UNCHANGED <<fdir, fj, scr, w0, ndim, use_fofc, fofc_ran, fstatus, fofc_status, swept>>

\* next sweep index, next direction (x2 if multi_d, x3 if three_d), or the
\* end of the sweeps
CF_Advance ==
  /\ fpc = "advance"
  /\ UNCHANGED <<rvars, restRF>>
  /\ IF fdir > 1 /\ fj < je + 1
     THEN fj' = fj + 1 /\ fpc' = "recon" /\ UNCHANGED <<fdir, swept>>
     ELSE IF fdir < ndim
     THEN /\ fdir' = fdir + 1 /\ fj' = js - 1 /\ fpc' = "recon"
          /\ swept' = swept \cup {fdir}
     ELSE /\ fpc' = "fofc" /\ UNCHANGED <<fdir, fj>>
          /\ swept' = swept \cup {fdir}
  /\ UNCHANGED <<scr, flx, w0, ndim, use_fofc, fofc_ran, fstatus, fofc_status>>

\* the ways the FOFC pass can end
SubStatus == {"complete", "fail"}

\* mutation of CallsFOFC: the option is ignored
CallsFOFC_excise_only(use, exc) == exc

\* the condition under which CalcFluxes calls FOFC(pdriver, stage)
CallsFOFC(use, exc) == use \/ exc

\* the status CalcFluxes returns, given how the FOFC pass ended
ReturnStatus(sub) == "complete"

\* "Call FOFC if necessary", then return TaskStatus::complete
CF_Return ==
  /\ fpc = "fofc"
  /\ UNCHANGED <<rvars, restRF>>
  /\ fofc_ran' = CallsFOFC(use_fofc, excise)
  /\ \E sub \in SubStatus :
       fofc_status' = IF CallsFOFC(use_fofc, excise) THEN sub ELSE "none"
  /\ fstatus' = ReturnStatus(fofc_status')
  /\ fpc' = "done"
  /\ UNCHANGED <<fdir, fj, scr, flx, w0, ndim, use_fofc, swept>>

NextFlux ==
  \/ CF_Begin
  \/ CF_Reconstruct
  \/ CF_Solve
  \/ CF_ScalarUpwind
  \/ CF_Advance
  \/ CF_Return

\* scalar fields along the sweep
W0Fix ==
  { [j \in (js - 1)..(je + 1) |-> <<1, 2>>],
    [j \in (js - 1)..(je + 1) |-> IF j % 2 = 0 THEN <<2, 1>> ELSE <<1, 2>>] }

InitFlux ==
  /\ fpc = "idle" /\ fdir = 1 /\ fj = js
  /\ \E row \in ConcRows : scr = [b \in 1..3 |-> row]
  /\ flx = [d \in 1..3 |-> [j \in SweepIndices |->
                               [mass |-> 0, scal |-> [n \in Scalars |-> 0]]]]
  /\ w0 \in W0Fix
  /\ ndim \in 1..3
  /\ use_fofc \in BOOLEAN
  /\ fofc_ran = FALSE
  /\ fstatus = "none"
  /\ fofc_status = "none"
  /\ swept = {}

\* the flux stage at rest (while the recovery engine is exercised)
InitFluxIdle ==
  /\ InitFlux
  /\ scr = [b \in 1..3 |-> <<1, 2>>]
  /\ w0 = [j \in (js - 1)..(je + 1) |-> <<1, 2>>]
  /\ ndim = 3
  /\ use_fofc = FALSE

\* the recovery engine at rest (while the flux stage is exercised)
InitRecoverIdle ==
  /\ InitRecover
  /\ prim = [c \in Cells |-> StalePrim]
  /\ cons = [c \in Cells |-> ConsFix[c + 1]]
  /\ g_dd = [c \in Cells |-> <<4, 1, 1>>]
  /\ bfc.x1f = [f \in 0..NCells |-> 0]
  /\ excision_floor = [c \in Cells |-> excise]
  /\ fail_prim = FALSE

----------------------------------------------------------------------------
(* Per-point wave speeds: GetGRSoundSpeeds, GetGRFastMagnetosonicSpeeds     *)

\* values eos.GetSoundSpeed may return
SoundSpeeds == {0, 1, 2, NaN}

\* velocities u^i handed to the wave speed functions
SpeedVelocities == {Zero3, <<NaN, 0, 0>>}

\* metric components g^ii handed to the wave speed functions
SpeedMetrics == {1, 4, 0, 0 - 1, NaN}

\* the arguments of a wave speed call; bH is the pair (bsq, H) of the squared
\* field strength and the enthalpy density
SpeedArgs ==
  [uu : SpeedVelocities, cs : SoundSpeeds, gii : SpeedMetrics, alpha : {1, 2},
   beta : {0, 1}, index : 1..3, bH : {<<0, 1>>, <<4, 0>>}]

\* the terms both functions compute from the squared characteristic speed
SpeedTerms(a, csq) ==
  LET usq     == SquareVector(a.uu, <<1, 1, 1>>)
      iWsq    == Div(1, Add(1, usq))
      iW      == Sqrt(iWsq)
      vsq     == Mul(usq, iWsq)
      vu      == Mul(a.uu[a.index], iW)
      iWsq_ad == Sub(1, Mul(vsq, csq))
      dis     == Mul(Mul(csq, iWsq),
                     Sub(Mul(a.gii, iWsq_ad), Mul(Mul(vu, vu), Sub(1, csq))))
      sdis    == Sqrt(dis)
  IN  [sdis |-> sdis,
       lambda_p |-> Sub(Div(Mul(a.alpha, Add(Mul(vu, Sub(1, csq)), sdis)), iWsq_ad),
                        a.beta),
       lambda_m |-> Sub(Div(Mul(a.alpha, Sub(Mul(vu, Sub(1, csq)), sdis)), iWsq_ad),
                        a.beta)]

\* the squared fast magnetosonic speed in the comoving frame
FastSpeedSq(a) ==
  LET csq  == Mul(a.cs, a.cs)
      bsq  == a.bH[1]
      H    == a.bH[2]
      vasq == Div(bsq, Add(bsq, H))
  IN  Sub(Add(csq, vasq), Mul(csq, vasq))

\* GetGRSoundSpeeds: if (!isfinite(sdis)) { printf(...); exit(EXIT_FAILURE); }
SoundSpeedExits(sdis) == ~isfinite(sdis)

\* GetGRFastMagnetosonicSpeeds: the exit after the printf is commented out
FastSpeedExits(sdis) == FALSE

\* a kernel calls GetGRSoundSpeeds at the point it works on
GetGRSoundSpeeds(a) ==
  /\ process = "running" /\ pt_call.op = "none"
  /\ LET t == SpeedTerms(a, Mul(a.cs, a.cs))
     IN  /\ pt_call' = [op |-> "GetGRSoundSpeeds", args |-> a, sdis |-> t.sdis]
         /\ IF SoundSpeedExits(t.sdis)
            THEN process' = "exited" /\ pt_out' = <<>>
            ELSE /\ pt_out' = [lambda_p |-> t.lambda_p, lambda_m |-> t.lambda_m]
                 /\ UNCHANGED process
  /\ UNCHANGED <<rvars, fvars, tvars, kvars, cvars>>

\* a kernel calls GetGRFastMagnetosonicSpeeds at the point it works on
GetGRFastMagnetosonicSpeeds(a) ==
  /\ process = "running" /\ pt_call.op = "none"
  /\ LET t == SpeedTerms(a, FastSpeedSq(a))
     IN  /\ pt_call' = [op |-> "GetGRFastMagnetosonicSpeeds", args |-> a,
                        sdis |-> t.sdis]
         /\ IF FastSpeedExits(t.sdis)
            THEN process' = "exited" /\ pt_out' = <<>>
            ELSE /\ pt_out' = [lambda_p |-> t.lambda_p, lambda_m |-> t.lambda_m]
                 /\ UNCHANGED process
  /\ UNCHANGED <<rvars, fvars, tvars, kvars, cvars>>

NextPoint ==
  \/ \E a \in SpeedArgs : GetGRSoundSpeeds(a)
  \/ \E a \in SpeedArgs : GetGRFastMagnetosonicSpeeds(a)

\* no wave speed call has been made
InitPoint ==
  /\ pt_call = [op |-> "none", args |-> <<>>, sdis |-> 0]
  /\ pt_out = <<>>

----------------------------------------------------------------------------
(* Construction: Hydro::Hydro and PrimitiveSolverHydro                      *)

\* pin->GetOrAddString: the configured string, or the default if there is none
GetOrAddString(value, default) == IF value = "absent" THEN default ELSE value

EosKnown(e) == e \in {"adiabatic", "isothermal"}

EvolutionKnown(e) == e \in {"static", "kinematic", "dynamic", "none"}

\* mutation of ReconKnown: every string is accepted
ReconKnown_any(r) == TRUE

ReconKnown(r) == r \in {"dc", "plm", "ppm"}

\* the Riemann solver object the constructor allocates, "" if it allocates none
\* mutation of RSolverFor: hllc is accepted with any EOS
RSolverFor_anyeos(rsolver, evolution, adiabatic) ==
  IF rsolver = "advection" \/ evolution = "kinematic" THEN "Advection"
  ELSE IF rsolver = "llf" THEN "LLF"
  ELSE IF rsolver = "hlle" THEN "HLLE"
  ELSE IF rsolver = "hllc" THEN "HLLC"
  ELSE IF rsolver = "roe" THEN "Roe"
  ELSE ""

RSolverFor(rsolver, evolution, adiabatic) ==
  IF rsolver = "advection" \/ evolution = "kinematic" THEN "Advection"
  ELSE IF rsolver = "llf" THEN "LLF"
  ELSE IF rsolver = "hlle" THEN "HLLE"
  ELSE IF rsolver = "hllc" THEN (IF adiabatic THEN "HLLC" ELSE "")
  ELSE IF rsolver = "roe" THEN "Roe"
  ELSE ""

\* the parameter blocks Hydro may be constructed with
HydroInputs ==
  [eos : {"adiabatic", "isothermal", "ideal"},
   evolution : {"static", "kinematic", "dynamic", "none", "stationary"},
   reconstruct : {"absent", "dc", "plm", "ppm", "wenoz"},
   rsolver : {"absent", "advection", "llf", "hlle", "hllc", "roe", "hlld"}]

\* the Hydro object before its constructor body runs
NewHydro(in) ==
  [in |-> in, step |-> "eos", peos |-> "", nhydro |-> 0, hydro_evol |-> "",
   precon |-> "", prsolver |-> "", fatal |-> ""]

\* "construct EOS object (no default)"
H_Eos ==
  /\ process = "running" /\ hydro.step = "eos"
  /\ IF EosKnown(hydro.in.eos)
     THEN /\ hydro' = [hydro EXCEPT
                         !.peos = IF hydro.in.eos = "adiabatic"
                                  THEN "AdiabaticHydro" ELSE "IsothermalHydro",
                         !.nhydro = IF hydro.in.eos = "adiabatic" THEN 5 ELSE 4,
                         !.step = "evolution"]
          /\ UNCHANGED process
     ELSE /\ hydro' = [hydro EXCEPT !.fatal = "eos not implemented"]
          /\ process' = "exited"
  /\ UNCHANGED <<rvars, fvars, tvars, kvars, pvars, psh>>

\* "set time-evolution option (no default)"
H_Evolution ==
  /\ process = "running" /\ hydro.step = "evolution"
  /\ IF EvolutionKnown(hydro.in.evolution)
     THEN /\ hydro' = [hydro EXCEPT !.hydro_evol = hydro.in.evolution,
                                    !.step = "arrays"]
          /\ UNCHANGED process
     ELSE /\ hydro' = [hydro EXCEPT !.fatal = "evolution not implemented"]
          /\ process' = "exited"
  /\ UNCHANGED <<rvars, fvars, tvars, kvars, pvars, psh>>

\* "allocate memory for conserved and primitive variables"; a problem that
\* does not evolve in time is complete here
H_Arrays ==
  /\ process = "running" /\ hydro.step = "arrays"
  /\ hydro' = [hydro EXCEPT !.step = IF hydro.hydro_evol # "none"
                                     THEN "reconstruct" ELSE "done"]
  /\ UNCHANGED <<rvars, fvars, tvars, kvars, pvars, psh, process>>

\* "allocate reconstruction method (default PLM)"
H_Reconstruct ==
  /\ process = "running" /\ hydro.step = "reconstruct"
  /\ LET recon_method == GetOrAddString(hydro.in.reconstruct, "plm")
     IN  IF ReconKnown(recon_method)
         THEN /\ hydro' = [hydro EXCEPT !.precon = recon_method, !.step = "rsolver"]
              /\ UNCHANGED process
         ELSE /\ hydro' = [hydro EXCEPT !.fatal = "recon not implemented"]
              /\ process' = "exited"
  /\ UNCHANGED <<rvars, fvars, tvars, kvars, pvars, psh>>

\* "allocate Riemann solver object (default depends on EOS and dynamics)"
H_RSolver ==
  /\ process = "running" /\ hydro.step = "rsolver"
  /\ LET adiabatic == hydro.peos = "AdiabaticHydro"
         rsolver   == GetOrAddString(hydro.in.rsolver,
                                     IF adiabatic THEN "hllc" ELSE "hlle")
         obj       == RSolverFor(rsolver, hydro.hydro_evol, adiabatic)
     IN  IF obj # ""
         THEN /\ hydro' = [hydro EXCEPT !.prsolver = obj, !.step = "registers"]
              /\ UNCHANGED process
         ELSE /\ hydro' = [hydro EXCEPT !.fatal = "rsolver not implemented"]
              /\ process' = "exited"
  /\ UNCHANGED <<rvars, fvars, tvars, kvars, pvars, psh>>

\* "allocate registers, flux divergence, scratch arrays for time-dep probs"
H_Registers ==
  /\ process = "running" /\ hydro.step = "registers"
  /\ hydro' = [hydro EXCEPT !.step = "done"]
  /\ UNCHANGED <<rvars, fvars, tvars, kvars, pvars, psh, process>>

\* ps.GetEOS().GetMaxPieces()
MaxPieces == 2

\* the parameter blocks PrimitiveSolverHydro may be constructed with
PshInputs ==
  [policy : {"IdealGas", "PiecewisePolytrope"}, npieces : 0..(MaxPieces + 2)]

\* the PrimitiveSolverHydro object before its constructor body runs; written
\* is the set of indices of density_pieces / gamma_pieces that were stored to
NewPsh(in) ==
  [in |-> in, step |-> "floors", i |-> 0, written |-> {}, result |-> TRUE,
   fatal |-> ""]

\* mutation of TooManyPieces: the test is off by one
TooManyPieces_off_by_one(npieces, N) == npieces > N + 1

\* if (npieces > N)
TooManyPieces(npieces, N) == npieces > N

\* the constructor sets the floors and the threshold, then SetPolicyParams
P_Floors ==
  /\ process = "running" /\ psh.step = "floors"
  /\ psh' = [psh EXCEPT !.step = IF psh.in.policy = "PiecewisePolytrope"
                                 THEN "npieces" ELSE "gamma"]
  /\ UNCHANGED <<rvars, fvars, tvars, kvars, pvars, hydro, process>>

\* "Parameters for an ideal gas"
P_IdealGas ==
  /\ process = "running" /\ psh.step = "gamma"
  /\ psh' = [psh EXCEPT !.step = "done"]
  /\ UNCHANGED <<rvars, fvars, tvars, kvars, pvars, hydro, process>>

\* "Find out how many pieces we have; exit it if exceeds the maximum number"
P_CheckPieces ==
  /\ process = "running" /\ psh.step = "npieces"
  /\ IF TooManyPieces(psh.in.npieces, MaxPieces)
     THEN /\ psh' = [psh EXCEPT !.fatal = "npieces too large"]
          /\ process' = "exited"
     ELSE /\ psh' = [psh EXCEPT !.step = "collect", !.i = 0]
          /\ UNCHANGED process
  /\ UNCHANGED <<rvars, fvars, tvars, kvars, pvars, hydro>>

\* "Collect each individual polytrope": one iteration of the loop
P_Collect ==
  /\ process = "running" /\ psh.step = "collect" /\ psh.i < psh.in.npieces
  /\ psh' = [psh EXCEPT !.written = @ \cup {psh.i}, !.i = @ + 1]
  /\ UNCHANGED <<rvars, fvars, tvars, kvars, pvars, hydro, process>>

\* InitializeFromData and the test of its result
P_Initialize ==
  /\ process = "running" /\ psh.step = "collect" /\ psh.i >= psh.in.npieces
  /\ \E result \in BOOLEAN :
       IF ~result
       THEN /\ psh' = [psh EXCEPT !.result = FALSE,
                                  !.fatal = "error while constructing the EOS"]
            /\ process' = "exited"
       ELSE /\ psh' = [psh EXCEPT !.step = "done"]
            /\ UNCHANGED process
  /\ UNCHANGED <<rvars, fvars, tvars, kvars, pvars, hydro>>

NextConstruct ==
  \/ H_Eos
  \/ H_Evolution
  \/ H_Arrays
  \/ H_Reconstruct
  \/ H_RSolver
  \/ H_Registers
  \/ P_Floors
  \/ P_IdealGas
  \/ P_CheckPieces
  \/ P_Collect
  \/ P_Initialize

\* both constructors are about to run
InitConstruct ==
  /\ \E in \in HydroInputs : hydro = NewHydro(in)
  /\ \E in \in PshInputs : psh = NewPsh(in)

\* both objects have been constructed
InitConstructed ==
  /\ hydro = [NewHydro([eos |-> "adiabatic", evolution |-> "dynamic",
                        reconstruct |-> "plm", rsolver |-> "hlle"])
                EXCEPT !.step = "done", !.peos = "AdiabaticHydro", !.nhydro = 5,
                       !.hydro_evol = "dynamic", !.precon = "plm",
                       !.prsolver = "HLLE"]
  /\ psh = [NewPsh([policy |-> "IdealGas", npieces |-> 0]) EXCEPT !.step = "done"]

----------------------------------------------------------------------------
(* The threads of one team inside a CalcFluxes kernel                       *)

\* threads per team
NThreads == 2

Threads == 1..NThreads

\* the lanes (i indices) of a pencil, one per thread and stage
Lanes == Threads

\* a scratch lane nothing has been reconstructed into
Unwritten == js - 2

\* the lane par_for_inner hands to thread t when it deals the lanes with
\* offset off
LaneOf(t, off) == ((t - 1 + off) % NThreads) + 1

\* par_for_inner over [is-1, ie+1]: the lane thread t reconstructs
ReconLane(t) == LaneOf(t, team_part.recon)

\* par_for_inner inside the Riemann solver: the lane thread t solves
SolveLane(t) == LaneOf(t, team_part.solve)

\* par_for_inner over [is, ie] or [is, ie+1]: the lane thread t upwinds
UpwindLane(t) == LaneOf(t, team_part.upwind)

\* the first sweep index of the team's kernel: x1 has one index per team, x2
\* and x3 loop from js-1 inside the team
FirstIndex(dir) == IF dir = 1 THEN js ELSE js - 1

\* the buffer bound to bl at sweep index j
BL(dir, j) == IF dir = 1 THEN 4 ELSE IF j % 2 = 0 THEN 5 ELSE 4

\* the buffer bound to bl_jp1 / bl_kp1 at sweep index j (bl itself in x1)
BLnext(dir, j) == IF dir = 1 THEN 4 ELSE IF j % 2 = 0 THEN 4 ELSE 5

\* the buffer bound to br
BR == 6

\* the scratch buffers of a team: scr1..scr6 (x1 has wl, wr, bl, br only)
Buffers == 1..6

\* mutation of BarrierOpen: team_barrier does not wait
BarrierOpen_none(t) == TRUE

\* mutation of BarrierOpen: team_barrier never lets a thread go
BarrierOpen_never(t) == FALSE

\* member.team_barrier(): thread t leaves the barrier once every thread of the
\* team has reached it
BarrierOpen(t) == \A u \in Threads : thr[u].nb >= thr[t].nb

NoRead == [stage |-> "none", j |-> 0, lane |-> 0, wl |-> Unwritten,
           wr |-> Unwritten, bl |-> Unwritten, br |-> Unwritten,
           flx |-> "stale"]

\* what thread t's stage reads at lane i of sweep index j
ReadOf(stage, j, i) ==
  [stage |-> stage, j |-> j, lane |-> i,
   wl |-> tscr[WL(team_dir, j)][i], wr |-> tscr[WR][i],
   bl |-> tscr[BL(team_dir, j)][i], br |-> tscr[BR][i],
   flx |-> tflx[j][i]]

\* the values of ReconstructionMethod
ReconMethods == {"dc", "plm", "ppm4", "ppmx", "wenoz"}

\* mutation of Reconstructs: only the donor cell case calls a reconstruction
Reconstructs_dconly(method) == method = "dc"

\* switch (recon_method_): the cases that call a reconstruction function for
\* w0 and for b0; the default case calls none
Reconstructs(method) == method \in {"dc", "plm", "ppm4", "ppmx", "wenoz"}

\* "Reconstruct qR[j] and qL[j+1]", then the thread reaches the barrier
T_Reconstruct(t) ==
  /\ thr[t].pc = "recon"
  /\ LET j == thr[t].j
         i == ReconLane(t)
     IN  IF Reconstructs(team_recon)
         THEN tscr' = [tscr EXCEPT ![WLnext(team_dir, j)][i] = j, ![WR][i] = j,
                                   ![BLnext(team_dir, j)][i] = j, ![BR][i] = j]
         ELSE UNCHANGED tscr
  /\ thr' = [thr EXCEPT ![t].pc = "b1", ![t].nb = @ + 1]
  /\ UNCHANGED <<team_dir, team_scalars, team_part, team_recon, tflx, tlog>>
  /\ UNCHANGED <<rvars, fvars, process, pvars, cvars, kvars>>

\* member.team_barrier()
T_Barrier(t) ==
  /\ thr[t].pc \in {"b1", "b2", "b3"}
  /\ BarrierOpen(t)
  /\ thr' = [thr EXCEPT ![t].pc = IF @ = "b1" THEN "solve"
                                  ELSE IF @ = "b2" THEN "upwind" ELSE "done"]
  /\ UNCHANGED <<team_dir, team_scalars, team_part, team_recon, tscr, tflx, tlog>>
  /\ UNCHANGED <<rvars, fvars, process, pvars, cvars, kvars>>

\* "compute fluxes over [is,ie+1]": the Riemann solve of the thread's lane
\* reads wl, wr, bl and br and writes the mass flux; then the thread reaches
\* the barrier
T_Solve(t) ==
  /\ thr[t].pc = "solve"
  /\ LET j == thr[t].j
         i == SolveLane(t)
     IN  IF SolveRuns(team_dir, j)
         THEN /\ tlog' = [tlog EXCEPT ![t] = ReadOf("solve", j, i)]
              /\ tflx' = [tflx EXCEPT ![j][i] = "solved"]
         ELSE UNCHANGED <<tlog, tflx>>
  /\ thr' = [thr EXCEPT ![t].pc = "b2", ![t].nb = @ + 1]
  /\ UNCHANGED <<team_dir, team_scalars, team_part, team_recon, tscr>>
  /\ UNCHANGED <<rvars, fvars, process, pvars, cvars, kvars>>

\* "Calculate fluxes of scalars (if any)": reads the mass flux, wl and wr of the
\* thread's lane; x1 ends with a barrier, x2 and x3 go on to the next index and
\* reach a barrier after the loop
T_Upwind(t) ==
  /\ thr[t].pc = "upwind"
  /\ LET j == thr[t].j
         i == UpwindLane(t)
     IN  /\ IF team_scalars
            THEN tlog' = [tlog EXCEPT ![t] = ReadOf("upwind", j, i)]
            ELSE UNCHANGED tlog
         /\ IF team_dir # 1 /\ j < je + 1
            THEN thr' = [thr EXCEPT ![t].pc = "recon", ![t].j = j + 1]
            ELSE thr' = [thr EXCEPT ![t].pc = "b3", ![t].nb = @ + 1]
  /\ UNCHANGED <<team_dir, team_scalars, team_part, team_recon, tscr, tflx>>
  /\ UNCHANGED <<rvars, fvars, process, pvars, cvars, kvars>>

NextTeam ==
  \/ \E t \in Threads : T_Reconstruct(t)
  \/ \E t \in Threads : T_Barrier(t)
  \/ \E t \in Threads : T_Solve(t)
  \/ \E t \in Threads : T_Upwind(t)

\* the ways par_for_inner may deal the lanes in the three stages
Partitions == [recon : 0..(NThreads - 1), solve : 0..(NThreads - 1),
               upwind : 0..(NThreads - 1)]

\* a team enters its kernel
InitTeam ==
  /\ team_dir \in 1..3
  /\ team_scalars \in BOOLEAN
  /\ team_part \in Partitions
  /\ team_recon \in ReconMethods
  /\ thr = [t \in Threads |-> [pc |-> "recon", j |-> FirstIndex(team_dir), nb |-> 0]]
  /\ tscr = [b \in Buffers |-> [i \in Lanes |-> Unwritten]]
  /\ tflx = [j \in SweepIndices |-> [i \in Lanes |-> "stale"]]
  /\ tlog = [t \in Threads |-> NoRead]

\* no kernel is running
InitTeamIdle ==
  /\ team_dir = 1
  /\ team_scalars = FALSE
  /\ team_part = [recon |-> 0, solve |-> 0, upwind |-> 0]
  /\ team_recon = "plm"
  /\ thr = [t \in Threads |-> [pc |-> "done", j |-> js, nb |-> 0]]
  /\ tscr = [b \in Buffers |-> [i \in Lanes |-> Unwritten]]
  /\ tflx = [j \in SweepIndices |-> [i \in Lanes |-> "stale"]]
  /\ tlog = [t \in Threads |-> NoRead]

----------------------------------------------------------------------------
(* The teams of the three kernels of one CalcFluxes call                    *)

\* number of MeshBlocks of the pack (nmb_thispack)
NMB == 1

\* indcs_.is, indcs_.ie
is == 1

ie == is + NJ - 1

\* the faces whose left (l) and right (r) states a reconstruction over
\* [is-1, ie+1] writes: x1 writes ql(i+1) and qr(i), x2 and x3 write
\* ql_jp1(i) and qr(i)
ReconFaces(dir) ==
  [l |-> IF dir = 1 THEN is..(ie + 2) ELSE (is - 1)..(ie + 1),
   r |-> (is - 1)..(ie + 1)]

\* the faces whose states the Riemann solver reads: [is, ie+1] in x1,
\* [is-1, ie+1] in x2 and x3
SolveFaces(dir) == IF dir = 1 THEN is..(ie + 1) ELSE (is - 1)..(ie + 1)

\* indcs_.ks
ks == 1

\* indcs_.je of a mesh of the given dimensionality: one cell in x2 if one_d
mje(ndim_) == IF ndim_ >= 2 THEN je ELSE js

\* indcs_.ke of a mesh of the given dimensionality: one cell in x3 unless three_d
mke(ndim_) == IF ndim_ = 3 THEN ks + NJ - 1 ELSE ks

\* the index a team does not own but loops over
Loop == js - 2

\* mutation of X1Limits: the limits of a 1-D problem whatever the mesh
X1Limits_unwidened(ndim_) ==
  [jl |-> js, ju |-> mje(ndim_), kl |-> ks, ku |-> mke(ndim_)]

\* "set the loop limits for 1D/2D/3D problems" of the x1 kernel
X1Limits(ndim_) ==
  IF ndim_ = 1
  THEN [jl |-> js, ju |-> mje(ndim_), kl |-> ks, ku |-> mke(ndim_)]
  ELSE IF ndim_ = 2
  THEN [jl |-> js - 1, ju |-> mje(ndim_) + 1, kl |-> ks, ku |-> mke(ndim_)]
  ELSE [jl |-> js - 1, ju |-> mje(ndim_) + 1, kl |-> ks - 1, ku |-> mke(ndim_) + 1]

\* "set the loop limits for 2D/3D problems" of the x2 kernel
X2Limits(ndim_) ==
  IF ndim_ = 2
  THEN [kl |-> ks, ku |-> mke(ndim_)]
  ELSE [kl |-> ks - 1, ku |-> mke(ndim_) + 1]

\* the teams par_for_outer launches for the kernel of direction d: (m, k, j)
\* in x1, (m, k) in x2, (m, j) in x3
League(d, ndim_) ==
  IF d = 1
  THEN {<<1, m, k, j>> : m \in 0..(NMB - 1),
                         k \in X1Limits(ndim_).kl .. X1Limits(ndim_).ku,
                         j \in X1Limits(ndim_).jl .. X1Limits(ndim_).ju}
  ELSE IF d = 2
  THEN {<<2, m, k, Loop>> : m \in 0..(NMB - 1),
                            k \in X2Limits(ndim_).kl .. X2Limits(ndim_).ku}
  ELSE {<<3, m, Loop, j>> : m \in 0..(NMB - 1), j \in (js - 1)..(mje(ndim_) + 1)}

\* mutation of FlxElement: the k index of the team is dropped
FlxElement_nok(d, m, k, j, i) == <<d, m, ks, j, i>>

\* the element flx1 / flx2 / flx3 (m, n, k, j, i) of the flux arrays
FlxElement(d, m, k, j, i) == <<d, m, k, j, i>>

\* the iterations <<sweep index, i>> in which the team's Riemann solve writes
\* a flux: x1 over [is, ie+1] at the team's j, x2 and x3 over [is-1, ie+1] at
\* every sweep index after the first
SolveIters(team, ndim_) ==
  IF team[1] = 1 THEN {<<team[4], i>> : i \in is..(ie + 1)}
  ELSE IF team[1] = 2
  THEN {<<j, i>> : j \in {x \in (js - 1)..(mje(ndim_) + 1) : SolveRuns(2, x)},
                   i \in (is - 1)..(ie + 1)}
  ELSE {<<k, i>> : k \in {x \in (ks - 1)..(mke(ndim_) + 1) : x > ks - 1},
                   i \in (is - 1)..(ie + 1)}

\* the iterations in which the team's scalar upwind writes a scalar flux: x1
\* over [is, ie+1], x2 and x3 over [is, ie] at every sweep index
UpwindIters(team, ndim_) ==
  IF team[1] = 1 THEN {<<team[4], i>> : i \in is..(ie + 1)}
  ELSE IF team[1] = 2
  THEN {<<j, i>> : j \in (js - 1)..(mje(ndim_) + 1), i \in is..ie}
  ELSE {<<k, i>> : k \in (ks - 1)..(mke(ndim_) + 1), i \in is..ie}

\* the flux element the team writes in iteration it
ElementOf(team, it) ==
  IF team[1] = 1 THEN FlxElement(1, team[2], team[3], team[4], it[2])
  ELSE IF team[1] = 2 THEN FlxElement(2, team[2], team[3], it[1], it[2])
  ELSE FlxElement(3, team[2], it[1], team[4], it[2])

\* member.team_scratch(scr_level): the scratch allocation of a team
ScratchOf(team) == team

\* every index a flux element may carry
Ghosted == (js - 1)..(je + 1)

FlxElements == {<<d, m, k, j, i>> : d \in 1..3, m \in 0..(NMB - 1),
                                    k \in Ghosted, j \in Ghosted, i \in Ghosted}

\* CalcFluxes launches the x1 kernel
G_Begin ==
  /\ gdir = 0
  /\ gdir' = 1 /\ gran' = gran \cup {1}
  /\ pending' = League(1, gdim)
  /\ UNCHANGED <<gdim, gscal, fwr, swr>>
  /\ UNCHANGED <<rvars, fvars, process, pvars, cvars, tvars, bvars, dvars, hvars>>

\* one team runs the body of the kernel: reconstruction into its scratch
\* buffers, the Riemann solves, the scalar upwind if there are scalars
G_Team(team) ==
  /\ gdir \in 1..3 /\ team \in pending
  /\ pending' = pending \ {team}
  /\ fwr' = [el \in FlxElements |->
               [mass |-> fwr[el].mass \cup
                           {<<team, it>> : it \in {x \in SolveIters(team, gdim) :
                                                     ElementOf(team, x) = el}},
                scal |-> fwr[el].scal \cup
                           (IF gscal
                            THEN {<<team, it>> : it \in {x \in UpwindIters(team, gdim) :
                                                           ElementOf(team, x) = el}}
                            ELSE {})]]
  /\ swr' = swr \cup {<<ScratchOf(team), team>>}
  /\ UNCHANGED <<gdim, gscal, gdir, gran>>
  /\ UNCHANGED <<rvars, fvars, process, pvars, cvars, tvars, bvars, dvars, hvars>>

\* the kernel is complete: the x2 kernel follows if multi_d, the x3 kernel if
\* three_d, else the sweeps are over
G_Next ==
  /\ gdir \in 1..3 /\ pending = {}
  /\ LET next == IF gdir = 1 /\ gdim >= 2 THEN 2
                 ELSE IF gdir <= 2 /\ gdim = 3 THEN 3
                 ELSE 4
     IN  /\ gdir' = next
         /\ gran' = IF next <= 3 THEN gran \cup {next} ELSE gran
         /\ pending' = IF next <= 3 THEN League(next, gdim) ELSE {}
  /\ UNCHANGED <<gdim, gscal, fwr, swr>>
  /\ UNCHANGED <<rvars, fvars, process, pvars, cvars, tvars, bvars, dvars, hvars>>

\* every team some kernel of some mesh launches
Teams == UNION {League(d, n) : d \in 1..3, n \in 1..3}

NextLeague ==
  \/ G_Begin
  \/ \E team \in Teams : G_Team(team)
  \/ G_Next

\* CalcFluxes is about to launch its kernels
InitLeague ==
  /\ gdim \in 1..3
  /\ gscal \in BOOLEAN
  /\ gdir = 0 /\ gran = {} /\ pending = {}
  /\ fwr = [el \in FlxElements |-> [mass |-> {}, scal |-> {}]]
  /\ swr = {}

\* no kernel is launched
InitLeagueIdle ==
  /\ InitLeague
  /\ gdim = 1 /\ gscal = FALSE

----------------------------------------------------------------------------
(* PrimToConsPt: the conversion of the two states of an interface           *)

\* mutation of NormalField: the reconstructed value is taken
NormalField_recon(bx, brc, ibx) == brc[ibx]

\* the face-normal component PrimToConsPt starts from: bx(m, k, j, i)
NormalField(bx, brc, ibx) == bx

\* PrimToConsPt(w, brc, bx, prim_pt, cons_pt, b, g3d, sdetg, ...) for the state
\* w(., i) with the reconstructed field brc(., i): the undensitized field handed
\* to ps.PrimToCon, the densitized conserved state and field it returns, and
\* the state it leaves in w
PrimToConsPt(w, brc, bx, g3d, sdetg, ibx) ==
  LET b_in    == [c \in 1..3 |-> IF c = ibx
                                 THEN Div(NormalField(bx, brc, ibx), sdetg)
                                 ELSE Div(brc[c], sdetg)]
      fl      == ApplyPrimitiveFloor(ExtractPrim(w))
      cons_pt == PrimToCon(fl.pt, b_in, g3d)
  IN  [b_in   |-> b_in,
       cons   |-> DensitizeCons(cons_pt, sdetg),
       b      |-> [c \in 1..3 |-> Mul(b_in[c], sdetg)],
       w      |-> IF WritesPrimBack(fl.floor) THEN StorePrim(fl.pt) ELSE w,
       report |-> CheckForConservedNaNs(cons_pt),
       w_in   |-> w,
       written |-> {"cons_pt", "b"} \cup
                   (IF WritesPrimBack(fl.floor) THEN {"w"} ELSE {})]

\* the Riemann solver converts the left state of the interface
PrimToConsPt_Left ==
  /\ conv.left = <<>>
  /\ LET out == PrimToConsPt(face.wl, face.bl, face.bx, face.g3d,
                             Sqrt(GetDeterminant(face.g3d)), face.dir)
     IN  /\ conv' = [conv EXCEPT !.left = out]
         /\ face' = [face EXCEPT !.wl = out.w]
  /\ UNCHANGED <<rvars, fvars, process, pvars, cvars, tvars, gvars, dvars, hvars>>

\* the Riemann solver converts the right state of the interface
PrimToConsPt_Right ==
  /\ conv.right = <<>>
  /\ LET out == PrimToConsPt(face.wr, face.br, face.bx, face.g3d,
                             Sqrt(GetDeterminant(face.g3d)), face.dir)
     IN  /\ conv' = [conv EXCEPT !.right = out]
         /\ face' = [face EXCEPT !.wr = out.w]
  /\ UNCHANGED <<rvars, fvars, process, pvars, cvars, tvars, gvars, dvars, hvars>>

NextFace ==
  \/ PrimToConsPt_Left
  \/ PrimToConsPt_Right

\* densitized reconstructed fields (bl(., i), br(., i))
FieldFix == { Zero3, <<2, 4, 6>>, <<4, 2, 8>> }

\* interfaces of a mesh with a valid metric
Faces ==
  [wl : {PrimFix[1], PrimFix[3]}, wr : {PrimFix[1], PrimFix[3]},
   bl : FieldFix, br : FieldFix, bx : {0, 2, 6},
   g3d : {<<1, 1, 1>>, <<4, 1, 1>>}, dir : 1..3]

\* the solver is about to convert the two states of an interface
InitFace ==
  /\ face \in Faces
  /\ conv = [left |-> <<>>, right |-> <<>>]

\* no interface is being converted
InitFaceIdle ==
  /\ face = [wl |-> PrimFix[1], wr |-> PrimFix[1], bl |-> Zero3, br |-> Zero3,
             bx |-> 0, g3d |-> <<1, 1, 1>>, dir |-> 1]
  /\ conv = [left |-> PrimToConsPt(PrimFix[1], Zero3, 0, <<1, 1, 1>>, 1, 1),
             right |-> PrimToConsPt(PrimFix[1], Zero3, 0, <<1, 1, 1>>, 1, 1)]

----------------------------------------------------------------------------
(* The linear index of the ConsToPrim reduction                             *)

\* the largest nmb_thispack of a decoded range
MaxBlocks == 2

\* the largest number of cells of a decoded range along one direction
MaxExtent == 2

\* the largest number of iterations of a decoded range
MaxIter == 8

\* ni, nji, nkji, nmkji of a range
Strides(d) ==
  LET ni   == d.iu - d.il + 1
      nji  == (d.ju - d.jl + 1) * ni
      nkji == (d.ku - d.kl + 1) * nji
  IN  [ni |-> ni, nji |-> nji, nkji |-> nkji, nmkji |-> d.nmb * nkji]

\* mutation of Decode: j is computed with the stride of k
Decode_stride(idx, d) ==
  LET st == Strides(d)
      m  == idx \div st.nkji
      k  == (idx - m * st.nkji) \div st.nji
      j  == (idx - m * st.nkji - k * st.nji) \div st.nji
      i  == (idx - m * st.nkji - k * st.nji - j * st.ni) + d.il
  IN  <<m, k + d.kl, j + d.jl, i>>

\* the cell (m, k, j, i) iteration idx works on
Decode(idx, d) ==
  LET st == Strides(d)
      m  == idx \div st.nkji
      k  == (idx - m * st.nkji) \div st.nji
      j  == (idx - m * st.nkji - k * st.nji) \div st.ni
      i  == (idx - m * st.nkji - k * st.nji - j * st.ni) + d.il
  IN  <<m, k + d.kl, j + d.jl, i>>

\* one iteration of the parallel_reduce, in any order
D_Iterate(idx) ==
  /\ idx \in iter
  /\ iter' = iter \ {idx}
  /\ visits' = visits \cup {<<idx, Decode(idx, dec)>>}
  /\ UNCHANGED dec
  /\ UNCHANGED <<rvars, fvars, process, pvars, cvars, tvars, gvars, bvars, hvars>>

NextDecode == \E idx \in 0..(MaxIter - 1) : D_Iterate(idx)

\* the index ranges of a call
DecodeRanges ==
  {d \in [nmb : 1..MaxBlocks, il : {0, 2}, iu : 0..(1 + MaxExtent),
          jl : {1}, ju : 1..MaxExtent, kl : {0, 3}, ku : 0..(2 + MaxExtent)] :
     /\ d.iu \in d.il .. (d.il + MaxExtent - 1)
     /\ d.ku \in d.kl .. (d.kl + MaxExtent - 1)
     /\ (d.il = 0) = (d.kl = 0)
     /\ Strides(d).nmkji <= MaxIter}

\* the reduction over a range is about to run
InitDecode ==
  /\ dec \in DecodeRanges
  /\ iter = 0..(Strides(dec).nmkji - 1)
  /\ visits = {}

\* no reduction is being followed
InitDecodeIdle ==
  /\ dec = [nmb |-> 1, il |-> 0, iu |-> 0, jl |-> 1, ju |-> 1, kl |-> 0, ku |-> 0]
  /\ iter = {}
  /\ visits = {<<0, <<0, 0, 1, 0>>>>}

\* the components that look at single kernels, at rest
----------------------------------------------------------------------------
(* Hydro::HydroAddTasks and the execution of the task list                  *)

\* the most tasks a list holds before HydroAddTasks is called
MaxTasks == 2

\* the member functions HydroAddTasks registers, in the order of its AddTask
\* calls
HydroTasks == <<"CopyConserved", "HydroDivFlux", "HydroUpdate", "HydroSend",
                "NewTimeStep", "HydroReceive", "ConToPrim">>

\* mutation of Dependency: every task depends on the start task
Dependency_start(n, start, ids) == start

\* the dependency argument of the n-th AddTask call: start for the first,
\* the id the call before returned for the others
Dependency(n, start, ids) == IF n = 1 THEN start ELSE ids[n - 1]

\* TaskList::AddTask: the task is appended and its position is its id
AddTask(list, fn, dep) ==
  Append(list, [fn |-> fn, dep |-> dep, started |-> FALSE, complete |-> FALSE])

\* the functions that may return TaskStatus::incomplete and be run again
MayBeIncomplete(fn) == fn \in {"HydroSend", "HydroReceive", "other"}

\* tl.AddTask(&Hydro::..., this, dep): the next of the seven registrations
HA_AddTask ==
  /\ addt.step \in 1..7
  /\ tl' = AddTask(tl, HydroTasks[addt.step],
                   Dependency(addt.step, addt.start, addt.ids))
  /\ addt' = [addt EXCEPT !.step = @ + 1, !.ids = Append(@, Len(tl) + 1)]
  /\ UNCHANGED added
  /\ UNCHANGED <<rvars, fvars, process, pvars, cvars, tvars, gvars, bvars, dvars>>

\* added.emplace_back(...): the next of the seven ids is appended
HA_Emplace ==
  /\ addt.step \in 8..14
  /\ added' = Append(added, addt.ids[addt.step - 7])
  /\ addt' = [addt EXCEPT !.step = @ + 1]
  /\ UNCHANGED tl
  /\ UNCHANGED <<rvars, fvars, process, pvars, cvars, tvars, gvars, bvars, dvars>>

\* return
HA_Return ==
  /\ addt.step = 15
  /\ addt' = [addt EXCEPT !.step = 16]
  /\ UNCHANGED <<tl, added>>
  /\ UNCHANGED <<rvars, fvars, process, pvars, cvars, tvars, gvars, bvars, dvars>>

\* the task list runs task id: it has not completed, and the task it
\* depends on, if any, has; the function returns complete or incomplete
TL_Run(id, status) ==
  /\ addt.step = 16
  /\ id \in 1..Len(tl)
  /\ ~tl[id].complete
  /\ tl[id].dep # 0 => tl[tl[id].dep].complete
  /\ status = "incomplete" => MayBeIncomplete(tl[id].fn) /\ ~tl[id].started
  /\ tl' = [tl EXCEPT ![id].started = TRUE, ![id].complete = (status = "complete")]
  /\ UNCHANGED <<added, addt>>
  /\ UNCHANGED <<rvars, fvars, process, pvars, cvars, tvars, gvars, bvars, dvars>>

NextTasks ==
  \/ HA_AddTask
  \/ HA_Emplace
  \/ HA_Return
  \/ \E id \in 1..(MaxTasks + 7), status \in {"complete", "incomplete"} :
       TL_Run(id, status)

\* the task lists HydroAddTasks may be handed: up to MaxTasks tasks of other
\* modules, each depending on none or on an earlier one
TaskLists ==
  UNION {[1..n -> [fn : {"other"}, dep : 0..(MaxTasks - 1),
                   started : {FALSE}, complete : {FALSE}]] : n \in 0..MaxTasks}

\* HydroAddTasks is called with a task list, a start task of that list (or
\* none) and a vector of ids
InitTasks ==
  /\ tl \in {l \in TaskLists : \A i \in 1..Len(l) : l[i].dep < i}
  /\ added \in {<<>>, <<1>>}
  /\ Len(added) <= Len(tl)
  /\ addt \in [start : 0..MaxTasks, step : {1}, ids : {<<>>},
                entry_tl : {tl}, entry_added : {added}]
  /\ addt.start <= Len(tl)

\* no task list is being assembled
InitTasksIdle ==
  /\ tl = <<>> /\ added = <<>>
  /\ addt = [start |-> 0, step |-> 16, ids |-> <<>>, entry_tl |-> <<>>,
             entry_added |-> <<>>]

InitKernelsIdle == InitLeagueIdle /\ InitFaceIdle /\ InitDecodeIdle /\ InitTasksIdle

vars == <<rvars, fvars, process, pvars, cvars, tvars, kvars>>

\* the recovery engine before its first call, the flux stage at rest
Init ==
  /\ InitRecover /\ InitFluxIdle
  /\ process = "running" /\ InitPoint /\ InitConstructed /\ InitTeamIdle
  /\ InitKernelsIdle

\* the recovery engine driven by a host
Spec == Init /\ [][NextRecover]_vars

\* the flux stage before CalcFluxes is called, the recovery engine at rest
InitCalcFluxes ==
  /\ InitRecoverIdle /\ InitFlux
  /\ process = "running" /\ InitPoint /\ InitConstructed /\ InitTeamIdle
  /\ InitKernelsIdle

\* one CalcFluxes call
SpecFlux == InitCalcFluxes /\ [][NextFlux]_vars

\* the state in which kernels call the wave speed functions
InitSpeeds ==
  /\ InitRecoverIdle /\ ~excise /\ InitFluxIdle
  /\ process = "running" /\ InitPoint /\ InitConstructed /\ InitTeamIdle
  /\ InitKernelsIdle

\* kernels calling the wave speed functions point by point
SpecPoint == InitSpeeds /\ [][NextPoint]_vars

\* the state in which the two objects are constructed
InitSetup ==
  /\ InitRecoverIdle /\ ~excise /\ InitFluxIdle
  /\ process = "running" /\ InitPoint /\ InitConstruct /\ InitTeamIdle
  /\ InitKernelsIdle

\* construction of Hydro and of PrimitiveSolverHydro
SpecConstruct == InitSetup /\ [][NextConstruct]_vars

\* the state in which a team enters a CalcFluxes kernel
InitKernel ==
  /\ InitRecoverIdle /\ ~excise /\ InitFluxIdle
  /\ process = "running" /\ InitPoint /\ InitConstructed /\ InitTeam
  /\ InitKernelsIdle

\* the threads of one team running one kernel of CalcFluxes
SpecTeam == InitKernel /\ [][NextTeam]_vars

\* the state in which CalcFluxes launches its kernels
InitSweeps ==
  /\ InitRecoverIdle /\ ~excise /\ InitFluxIdle
  /\ process = "running" /\ InitPoint /\ InitConstructed /\ InitTeamIdle
  /\ InitLeague /\ InitFaceIdle /\ InitDecodeIdle /\ InitTasksIdle

\* the teams of the kernels of one CalcFluxes call
SpecLeague == InitSweeps /\ [][NextLeague]_vars

\* a thread of the team that is followed takes a step of its kernel, which
\* has been launched
K_Thread(t) ==
  /\ gdir = team_dir
  /\ T_Reconstruct(t) \/ T_Barrier(t) \/ T_Solve(t) \/ T_Upwind(t)

\* the kernel is complete, the threads of the team that is followed having
\* left it, and the next one is launched or the sweeps are over
K_Next == (gdir = team_dir => \A t \in Threads : thr[t].pc = "done") /\ G_Next

\* the kernels of the call move on
K_League == G_Begin \/ (\E team \in Teams : G_Team(team)) \/ K_Next

\* CalcFluxes is about to launch its kernels; the threads of one team of one
\* of the kernels it will launch are followed step by step
InitCall ==
  /\ InitRecoverIdle /\ ~excise /\ InitFluxIdle
  /\ process = "running" /\ InitPoint /\ InitConstructed
  /\ InitTeam /\ InitLeague /\ InitFaceIdle /\ InitDecodeIdle /\ InitTasksIdle
  /\ team_dir <= gdim /\ team_scalars = gscal
  /\ team_part = [recon |-> 0, solve |-> 0, upwind |-> 0]
  /\ team_recon = "plm"

NextCall ==
  \/ \E t \in Threads : K_Thread(t)
  \/ G_Begin
  \/ \E team \in Teams : G_Team(team)
  \/ K_Next

\* one CalcFluxes call whose threads and kernels are scheduled fairly: a
\* thread that can take a step takes one; a kernel that can be launched is
\* launched and a team that can run runs
SpecCall ==
  /\ InitCall /\ [][NextCall]_vars
  /\ \A t \in Threads : WF_vars(K_Thread(t))
  /\ WF_vars(K_League)

\* the state in which a Riemann solver converts an interface
InitInterface ==
  /\ InitRecoverIdle /\ ~excise /\ InitFluxIdle
  /\ process = "running" /\ InitPoint /\ InitConstructed /\ InitTeamIdle
  /\ InitLeagueIdle /\ InitFace /\ InitDecodeIdle /\ InitTasksIdle

\* the conversions of the two states of one interface
SpecFace == InitInterface /\ [][NextFace]_vars

\* the state in which the reduction of ConsToPrim starts
InitReduction ==
  /\ InitRecoverIdle /\ ~excise /\ InitFluxIdle
  /\ process = "running" /\ InitPoint /\ InitConstructed /\ InitTeamIdle
  /\ InitLeagueIdle /\ InitFaceIdle /\ InitDecode /\ InitTasksIdle

\* the iterations of one ConsToPrim reduction
SpecDecode == InitReduction /\ [][NextDecode]_vars

\* a driver is about to have Hydro add its tasks to a task list
InitAssembly ==
  /\ InitRecoverIdle /\ ~excise /\ InitFluxIdle
  /\ process = "running" /\ InitPoint /\ InitConstructed /\ InitTeamIdle
  /\ InitLeagueIdle /\ InitFaceIdle /\ InitDecodeIdle /\ InitTasks

\* HydroAddTasks, then the execution of the task list it filled
SpecTasks == InitAssembly /\ [][NextTasks]_vars

\* the host is about to call PrimToCons on a primitive grid, and a Riemann
\* solver to convert the two states of an interface
InitConversions ==
  /\ InitRecover /\ prim \in Grids(PrimFix) /\ ~excise /\ ~fail_prim
  /\ bcc0 = [c \in Cells |-> FaceAverage(bfc, c)]
  /\ InitFluxIdle
  /\ process = "running" /\ InitPoint /\ InitConstructed /\ InitTeamIdle
  /\ InitLeagueIdle /\ InitDecodeIdle /\ InitTasksIdle
  /\ InitFace /\ face.dir = 1 /\ face.bl = face.br /\ face.bx = face.bl[1]

NextConversions ==
  \/ \E r \in Ranges : P2C_Begin(r[1], r[2])
  \/ \E c \in Cells : P2C_Kernel(c)
  \/ P2C_End
  \/ PrimToConsPt_Left
  \/ PrimToConsPt_Right

\* the two conversions from primitive to conserved variables: PrimToCons over
\* the grid and PrimToConsPt at an interface
SpecConversions == InitConversions /\ [][NextConversions]_vars

----------------------------------------------------------------------------
(* Properties of the recovery engine                                       *)

\* sqrt(det g) of cell c
SqrtDetG(c) == Sqrt(GetDeterminant(g_dd[c]))

\* the kernel of the running/last ConsToPrim call has processed cell c
C2PDone(c) == call.op = "ConsToPrim" /\ klog[c].done

\* the kernel of the running/last PrimToCons call has processed cell c
P2CDone(c) == call.op = "PrimToCons" /\ klog[c].done

\* C1: every processed cell whose excision mask entry is set holds the
\* configured excision density and pressure and zero velocity, and its result
\* is adjusted with error SUCCESS, in either floors_only mode
C1_ExcisionOverride ==
  \A c \in Cells :
    (C2PDone(c) /\ excision_floor[c]) =>
      /\ prim[c].d = dexcise_
      /\ prim[c].p = pexcise_
      /\ prim[c].v = Zero3
      /\ klog[c].result.cons_adjusted
      /\ klog[c].result.error = "SUCCESS"

\* C1 witness: a floors_only call has returned after overwriting the
\* primitives of a masked cell
C1_Witness ==
  /\ pc = "idle" /\ call.op = "ConsToPrim" /\ call.floors_only
  /\ \E c \in Range(call) :
       excision_floor[c] /\ klog[c].done /\ prim[c] # entry.prim[c]

\* C31: in a processed excised cell the concentration substituted for every
\* scalar n is the ratio of that scalar's own incoming conserved density to
\* the incoming conserved mass density
C31_OwnMassFraction ==
  \A c \in Cells :
    (C2PDone(c) /\ klog[c].excised) =>
      \A n \in Scalars :
        klog[c].prim_out.Y[n] = Div(klog[c].cons_in.Yd[n], klog[c].cons_in.D)

\* C2: in a floors_only call every processed cell whose solve failed is
\* flagged, is counted exactly once, and keeps its conserved and primitive
\* values untouched
C2_FloorsOnlyFailure ==
  (call.op = "ConsToPrim" /\ call.floors_only) =>
    /\ \A c \in Cells :
         (klog[c].done /\ klog[c].result.error # "SUCCESS") =>
           /\ fofc[c]
           /\ klog[c].written \cap {"prim", "cons"} = {}
           /\ prim[c] = entry.prim[c]
           /\ cons[c] = entry.cons[c]
    /\ nfloord_ = Cardinality({c \in Cells :
                     klog[c].done /\ klog[c].result.error # "SUCCESS"})

\* C2 witness: a floors_only call has returned with a failed cell whose
\* conserved density is negative
C2_Witness ==
  /\ pc = "idle" /\ call.op = "ConsToPrim" /\ call.floors_only
  /\ \E c \in Range(call) :
       /\ klog[c].result.error # "SUCCESS"
       /\ Lt(klog[c].cons_in.D, 0)
       /\ nfloord_ >= 1

\* C3: wherever the call wrote a floored or excision-defaulted primitive, the
\* conserved array holds sqrt(det g) times the conserved state of the stored
\* primitive
C3_ConsMatchesPrim ==
  \A c \in Cells :
    (/\ C2PDone(c)
     /\ "prim" \in klog[c].written
     /\ \/ klog[c].result.prim_floor
        \/ klog[c].result.cons_floor
        \/ klog[c].excised) =>
      cons[c] = DensitizeCons(PrimToCon(ExtractPrim(prim[c]), klog[c].b_in, g_dd[c]),
                              SqrtDetG(c))

\* C5: the flags are both set during the pass of a floors_only call and have
\* their entry values at every other moment of a ConsToPrim call and after it
C5_FlagsRestored ==
  call.op = "ConsToPrim" =>
    IF call.floors_only /\ pc = "c2p"
    THEN fail_prim /\ fail_cons
    ELSE fail_prim = entry.fail_prim /\ fail_cons = entry.fail_cons

\* C5 witness: a floors_only call that processed a cell has returned and the
\* flags, which it had set, are clear again
C5_Witness ==
  /\ pc = "idle" /\ call.op = "ConsToPrim" /\ call.floors_only
  /\ \E c \in Cells : klog[c].done
  /\ ~fail_prim /\ ~fail_cons

\* the metric determinant of cell c is strictly positive
ValidMetric(c) == Lt(0, GetDeterminant(g_dd[c]))

\* some component of a conserved state is not finite
NonFiniteCons(u) ==
  \/ ~isfinite(u.D) \/ ~isfinite(u.tau)
  \/ \E i \in 1..3 : ~isfinite(u.S[i])
  \/ \E n \in Scalars : ~isfinite(u.Yd[n])

\* the last two calls were PrimToCons, then ConsToPrim without floors_only,
\* over the same range, and both have returned
RoundTripDone ==
  /\ pc = "idle"
  /\ prev.call.op = "PrimToCons"
  /\ call = [op |-> "ConsToPrim", il |-> prev.call.il, iu |-> prev.call.iu,
             floors_only |-> FALSE]

\* cell c made the round trip on valid data: positive determinant, a
\* cell-centred field that is the average of the faces, no floor in either
\* direction, no excision, no error
RoundTripClean(c) ==
  /\ ValidMetric(c)
  /\ prev.entry.bcc0[c] = FaceAverage(bfc, c)
  /\ ~prev.klog[c].floor
  /\ ~klog[c].excised
  /\ klog[c].result = SolverResult("SUCCESS", FALSE, FALSE, FALSE)

\* C6: PrimToCons followed by ConsToPrim over the same range gives back the
\* original primitive array at every cell where nothing was floored or excised
C6_RoundTrip ==
  RoundTripDone =>
    \A c \in Range(call) : RoundTripClean(c) => prim[c] = prev.entry.prim[c]

\* C6 witness: a clean round trip of a moving, magnetised cell has completed
C6_Witness ==
  /\ RoundTripDone
  /\ \E c \in Range(call) :
       /\ RoundTripClean(c)
       /\ "prim" \in klog[c].written
       /\ prim[c].v # Zero3
       /\ bcc0[c] # Zero3

\* C7: what is stored into the conserved array is the solver-side value times
\* sqrt(det g), what the solve receives is the array value divided by it, and
\* what is stored into the primitive array carries no such factor
C7_DensitizedOnce ==
  \A c \in Cells :
    /\ (klog[c].done /\ "cons" \in klog[c].written) =>
         /\ cons[c].D = Mul(klog[c].cons_out.D, SqrtDetG(c))
         /\ cons[c].tau = Mul(klog[c].cons_out.tau, SqrtDetG(c))
         /\ \A i \in 1..3 : cons[c].S[i] = Mul(klog[c].cons_out.S[i], SqrtDetG(c))
         /\ \A n \in Scalars : cons[c].Yd[n] = Mul(klog[c].cons_out.Yd[n], SqrtDetG(c))
    /\ C2PDone(c) =>
         /\ klog[c].cons_in.D = Div(entry.cons[c].D, SqrtDetG(c))
         /\ klog[c].cons_in.tau = Div(entry.cons[c].tau, SqrtDetG(c))
         /\ \A i \in 1..3 : klog[c].cons_in.S[i] = Div(entry.cons[c].S[i], SqrtDetG(c))
         /\ \A n \in Scalars : klog[c].cons_in.Yd[n] = Div(entry.cons[c].Yd[n], SqrtDetG(c))
    /\ (klog[c].done /\ "prim" \in klog[c].written) =>
         /\ prim[c].d = Mul(klog[c].prim_out.n, mb)
         /\ prim[c].v = klog[c].prim_out.v
         /\ prim[c].p = klog[c].prim_out.p

\* C7 witness: ConsToPrim has read and rewritten the conserved state of a cell
\* with sqrt(det g) = 2 that PrimToCons had stored
C7_Witness ==
  /\ pc = "idle" /\ call.op = "ConsToPrim" /\ prev.call.op = "PrimToCons"
  /\ \E c \in Range(call) :
       /\ SqrtDetG(c) = 2
       /\ prev.klog[c].done
       /\ {"prim", "cons"} \subseteq klog[c].written
       /\ ~NonFiniteCons(cons[c])
       /\ cons[c].D # 0

\* the last two calls were PrimToCons over the same range and both returned
TwiceDone ==
  /\ pc = "idle" /\ call.op = "PrimToCons" /\ prev.call = call

\* C8: a second PrimToCons over the same range floors nothing and leaves the
\* primitive and the conserved array as the first call left them
C8_FloorIdempotent ==
  TwiceDone =>
    \A c \in Range(call) :
      /\ ~klog[c].floor
      /\ prim[c] = entry.prim[c]
      /\ cons[c] = entry.cons[c]

\* C8 witness: the second call has returned over a cell the first call floored
C8_Witness ==
  /\ TwiceDone
  /\ \E c \in Range(call) : prev.klog[c].floor /\ klog[c].done

\* C9: at a cell whose metric determinant is not strictly positive neither
\* call writes a primitive or a conserved value
C9_RejectBadMetric ==
  \A c \in Cells :
    (klog[c].done /\ ~ValidMetric(c)) => klog[c].written \cap {"prim", "cons"} = {}

\* C10: a cell at which PrimToCons computed or stored a non-finite conserved
\* component has a diagnostic
C10_NaNReported ==
  \A c \in Cells :
    (P2CDone(c) /\ (NonFiniteCons(klog[c].cons_out) \/ NonFiniteCons(cons[c]))) =>
      "nan" \in klog[c].report

C13_ExcisedNeverSolved ==
  \A c \in Cells :
    (C2PDone(c) /\ excision_floor[c]) =>
      /\ ~klog[c].rootfinder
      /\ "fofc" \notin klog[c].written
      /\ fofc[c] = entry.fofc[c]
      /\ nfloord_ <= Cardinality({d \in Cells : klog[d].done /\ ~excision_floor[d]})

\* C13 witness: a floor-testing pass has returned over a masked cell whose
\* conserved state the root-finder would have rejected
C13_Witness ==
  /\ pc = "idle" /\ call.op = "ConsToPrim" /\ call.floors_only
  /\ \E c \in Range(call) :
       /\ excision_floor[c] /\ klog[c].done
       /\ NonFiniteCons(entry.cons[c]) \/ Lt(entry.cons[c].D, 0)

\* C16: a floors_only call writes no element of the conserved array, of the
\* primitive array or of the cell-centred magnetic field
C16_FloorsOnlyPure ==
  (call.op = "ConsToPrim" /\ call.floors_only) =>
    /\ prim = entry.prim /\ cons = entry.cons /\ bcc0 = entry.bcc0
    /\ \A c \in Cells : klog[c].written \cap {"prim", "cons", "bcc0"} = {}

\* C17: wherever ConsToPrim stored a primitive state, the scalars of the
\* primitive array are the concentrations the solve recovered
C17_ScalarsCopied ==
  \A c \in Cells :
    (C2PDone(c) /\ "prim" \in klog[c].written) => prim[c].s = klog[c].prim_out.Y

\* C27: when ConsToPrim(floors_only=true) has returned, the mesh-wide
\* counter has grown by the number of cells of the range whose solve did not
\* return SUCCESS, in whatever order the reduction took the cells
C27_CounterIncrement ==
  (pc = "idle" /\ call.op = "ConsToPrim" /\ call.floors_only) =>
    nfofc = entry.nfofc
            + Cardinality({c \in Range(call) : klog[c].result.error # "SUCCESS"})

\* C27 witness: a second floors_only call has returned after counting a failed
\* cell, the counter having been positive when it began
C27_Witness ==
  /\ pc = "idle" /\ call.op = "ConsToPrim" /\ call.floors_only
  /\ entry.nfofc >= 1
  /\ \E c \in Range(call) : klog[c].result.error # "SUCCESS"
  /\ nfofc > entry.nfofc

\* C29: once ConsToPrim(floors_only=false) has processed a cell, each
\* component of its cell-centred field is the mean of the two faces bounding it
\* and the solve of the cell used that mean (over sqrt(det g)); and no step of
\* the recovery engine changes the face-centred field
C29_FieldFromFaces ==
  /\ [](\A c \in Cells :
          (C2PDone(c) /\ ~call.floors_only) =>
            LET mean == << Half(bfc.x1f[c], bfc.x1f[c + 1]),
                           Half(bfc.x2f[c][1], bfc.x2f[c][2]),
                           Half(bfc.x3f[c][1], bfc.x3f[c][2]) >>
            IN  /\ bcc0[c] = mean
                /\ \A i \in 1..3 : klog[c].b_in[i] = Div(mean[i], SqrtDetG(c)))
  /\ [][bfc' = bfc]_vars

\* C29 witness: a call with floors_only=false has replaced a cell-centred
\* field that was not the mean of the faces
C29_Witness ==
  /\ pc = "idle" /\ call.op = "ConsToPrim" /\ ~call.floors_only
  /\ \E c \in Range(call) :
       /\ entry.bcc0[c] # bcc0[c]
       /\ bcc0[c][1] = Half(bfc.x1f[c], bfc.x1f[c + 1])
       /\ bfc.x1f[c] # bfc.x1f[c + 1]

----------------------------------------------------------------------------
(* Properties of the flux stage                                            *)

\* the face whose scalar fluxes have just been written
JustUpwinded == fpc = "advance"

\* C4 as stated: the scalar flux is the mass flux times the left concentration
\* for a positive mass flux, times the right one for a negative mass flux, and
\* zero for a zero mass flux whatever the concentrations are
C4_UpwindAsStated ==
  JustUpwinded =>
    \A n \in Scalars :
      LET mass == flx[fdir][fj].mass
          l    == scr[WL(fdir, fj)][n]
          r    == scr[WR][n]
          f    == flx[fdir][fj].scal[n]
      IN  /\ Lt(0, mass) => f = Mul(mass, l)
          /\ Lt(mass, 0) => f = Mul(mass, r)
          /\ mass = 0 => f = 0

\* C4 for finite concentrations: as stated, the flux for a zero mass flux
\* being zero whenever the left concentration is finite
C4_Upwind ==
  JustUpwinded =>
    \A n \in Scalars :
      LET mass == flx[fdir][fj].mass
          l    == scr[WL(fdir, fj)][n]
          r    == scr[WR][n]
          f    == flx[fdir][fj].scal[n]
      IN  /\ Lt(0, mass) => f = Mul(mass, l)
          /\ Lt(mass, 0) => f = Mul(mass, r)
          /\ (mass = 0 /\ isfinite(l)) => f = 0

\* C26: in the x2 and x3 sweeps the scalar upwinding runs only at indices where
\* the Riemann solve has written the mass flux in this call: it writes no
\* scalar flux at the first index js-1, where the solve is skipped
C26_UpwindAfterSolve ==
  (JustUpwinded /\ fdir # 1) => SolveRuns(fdir, fj)

\* C4 witness: in the x2 sweep a face with a positive mass flux and different
\* finite concentrations on its two sides has been upwinded
C4_Witness ==
  /\ JustUpwinded /\ fdir = 2
  /\ Lt(0, flx[fdir][fj].mass)
  /\ isfinite(scr[WL(fdir, fj)][1]) /\ isfinite(scr[WR][1])
  /\ scr[WL(fdir, fj)][1] # scr[WR][1]
  /\ flx[fdir][fj].scal[1] # 0

\* C14: CalcFluxes returns complete only if the FOFC pass it invoked completed
C14_StatusPropagated ==
  fpc = "done" => (fstatus = "complete" => fofc_status # "fail")

----------------------------------------------------------------------------
(* Properties of the wave speed functions and of construction             *)

\* C11: no call of a per-point operation ends the process
C11_NoAbortPerCell == process = "running"

\* Hydro's constructor has got past the step that handles parameter p
HydroPast(p) ==
  LET order == <<"eos", "evolution", "arrays", "reconstruct", "rsolver",
                 "registers", "done">>
      at(x) == CHOOSE k \in 1..7 : order[k] = x
  IN  at(hydro.step) > at(p)

\* C18: an unsupported eos, evolution or (for a time-evolving problem)
\* reconstruct string ends the process with a fatal error at the step that
\* reads it; a completed Hydro has its EOS object and, unless evolution is
\* "none", its reconstruction object
C18_HydroConfigFatal ==
  /\ HydroPast("eos") =>
       (hydro.in.eos \in {"adiabatic", "isothermal"} /\ hydro.peos # "")
  /\ HydroPast("evolution") =>
       hydro.in.evolution \in {"static", "kinematic", "dynamic", "none"}
  /\ (HydroPast("reconstruct") /\ hydro.hydro_evol # "none") =>
       hydro.in.reconstruct \in {"absent", "dc", "plm", "ppm"}
  /\ (HydroPast("reconstruct") /\ hydro.hydro_evol # "none") =>
       hydro.precon \in {"dc", "plm", "ppm"}
  /\ (hydro.step = "done" /\ hydro.hydro_evol # "none") => hydro.precon # ""
  /\ hydro.fatal # "" => process = "exited"
  /\ (hydro.step = "eos" /\ hydro.fatal # "") =>
       hydro.fatal = "eos not implemented"
  /\ (process = "exited" /\ psh.fatal = "") => hydro.fatal # ""

\* C18 witness: a time-evolving Hydro with a valid eos and an unrecognised
\* reconstruct string has ended the process
C18_Witness ==
  /\ process = "exited" /\ hydro.fatal = "recon not implemented"
  /\ hydro.in.reconstruct = "wenoz" /\ hydro.peos # ""

\* the rsolver string is hllc with an isothermal EOS, or is not recognised
RSolverRejected ==
  \/ hydro.in.rsolver = "hllc" /\ hydro.in.eos = "isothermal"
  \/ hydro.in.rsolver \notin {"absent", "advection", "llf", "hlle", "hllc", "roe"}

\* what the constructor does for kinematic problems and for the default
\* rsolver: Advection is constructed whatever the string, and an absent string
\* never ends the process
RSolverAccepted ==
  /\ hydro.in.evolution = "kinematic" =>
       /\ hydro.fatal # "rsolver not implemented"
       /\ HydroPast("rsolver") => hydro.prsolver = "Advection"
  /\ hydro.in.rsolver = "absent" =>
       /\ hydro.fatal # "rsolver not implemented"
       /\ (HydroPast("rsolver") /\ hydro.hydro_evol \in {"static", "dynamic"}) =>
            hydro.prsolver = (IF hydro.in.eos = "adiabatic" THEN "HLLC" ELSE "HLLE")
  /\ hydro.fatal = "rsolver not implemented" => process = "exited"

\* C35 as stated: a kinematic problem gets the advection solver for every
\* rsolver string without a fatal error; with any other evolution, hllc with
\* an isothermal EOS and every unrecognised string end the process, so the
\* constructor never gets past its rsolver step; the default never does
C35_RSolverFatal ==
  /\ RSolverAccepted
  /\ (hydro.in.evolution # "kinematic" /\ RSolverRejected) => ~HydroPast("rsolver")

\* C35 amended: as stated for kinematic problems and for the default; hllc
\* with an isothermal EOS and every unrecognised string end the process when
\* the evolution is neither kinematic nor none; with evolution none the
\* rsolver string is never read and no solver is constructed
C35_RSolverFatalIfEvolving ==
  /\ RSolverAccepted
  /\ (hydro.in.evolution \notin {"kinematic", "none"} /\ RSolverRejected) =>
       ~HydroPast("rsolver")
  /\ hydro.hydro_evol = "none" =>
       hydro.prsolver = "" /\ hydro.fatal # "rsolver not implemented"

\* C35 witness: a static problem with an isothermal EOS and rsolver hllc has
\* ended the process at the Riemann solver
C35_Witness ==
  /\ process = "exited" /\ hydro.fatal = "rsolver not implemented"
  /\ hydro.in.evolution = "static" /\ hydro.in.eos = "isothermal"
  /\ hydro.in.rsolver = "hllc" /\ hydro.precon # ""

\* C19: with the piecewise-polytrope policy a piece count above the maximum
\* ends the process before any piece is stored, no index at or beyond the
\* maximum is ever stored to, and construction completes only if the count is
\* supported and the EOS initialisation succeeded
C19_PiecesChecked ==
  /\ psh.written \subseteq 0..(MaxPieces - 1)
  /\ (psh.in.policy = "PiecewisePolytrope" /\ psh.in.npieces > MaxPieces) =>
       /\ psh.written = {}
       /\ psh.step \in {"floors", "npieces"}
       /\ psh.step = "npieces" => (psh.fatal = "" \/ process = "exited")
  /\ (psh.in.policy = "PiecewisePolytrope" /\ psh.step = "done") =>
       (psh.in.npieces <= MaxPieces /\ psh.result)
  /\ ~psh.result => (process = "exited" /\ psh.fatal # "")
  /\ psh.fatal # "" => process = "exited"

\* C19 witness: all MaxPieces pieces have been stored and the EOS
\* initialisation has then failed
C19_Witness ==
  /\ psh.in.npieces = MaxPieces /\ psh.written = 0..(MaxPieces - 1)
  /\ ~psh.result /\ process = "exited"

----------------------------------------------------------------------------
(* Properties of the kernels of CalcFluxes                                  *)

\* the teams that wrote the flux element el
WritersOf(el) == {w[1] : w \in fwr[el].mass \cup fwr[el].scal}

\* C22: within one direction no two teams write the same element of the flux
\* array, no element has its mass flux or its scalar flux written more than
\* once, every team writes elements of its own m and k (x1, x2) or m and j
\* (x1, x3) only, and no scratch allocation is written by two teams
C22_TeamsDisjoint ==
  /\ \A el \in FlxElements :
       /\ Cardinality(WritersOf(el)) <= 1
       /\ Cardinality(fwr[el].scal) <= 1
       /\ Cardinality(fwr[el].mass) <= 1
       /\ \A team \in WritersOf(el) :
            /\ team[1] = el[1] /\ team[2] = el[2]
            /\ team[1] \in {1, 2} => team[3] = el[3]
            /\ team[1] \in {1, 3} => team[4] = el[4]
  /\ \A x \in swr : \A y \in swr : x[1] = y[1] => x[2] = y[2]

\* C22 witness: on a 3-D mesh with scalars all three kernels have run and
\* two x2 teams have written scalar fluxes at the same j and i
C22_Witness ==
  /\ gdir = 4 /\ gdim = 3 /\ gscal
  /\ \E a \in FlxElements : \E b \in FlxElements :
       /\ a[1] = 2 /\ b[1] = 2 /\ a[3] # b[3] /\ a[4] = b[4] /\ a[5] = b[5]
       /\ fwr[a].scal # {} /\ fwr[b].scal # {}

\* the faces of direction d at which a Riemann solve wrote a flux
Solved(d) == {<<el[3], el[4], el[5]>> : el \in {x \in FlxElements : x[1] = d /\ fwr[x].mass # {}}}

\* the range of a transverse direction: the active cells, with one more on
\* each side if the mesh is extended in that direction
Transverse(lo, n, extended) ==
  IF extended THEN (lo - 1)..(lo + n) ELSE lo..(lo + n - 1)

\* C24: when the sweeps are over, the x1 kernel has run, the x2 kernel iff
\* the mesh is multi-dimensional, the x3 kernel iff it is three-dimensional;
\* and the faces solved in each direction are the faces of the sweep times the
\* transverse ranges, widened by one cell on each side exactly in the
\* directions in which the mesh is extended
C24_SweepsAndRanges ==
  gdir = 4 =>
    /\ gran = {d \in 1..3 : d <= gdim}
    /\ Solved(1) = Transverse(1, IF gdim = 3 THEN NJ ELSE 1, gdim = 3)
                     \X Transverse(1, IF gdim >= 2 THEN NJ ELSE 1, gdim >= 2)
                     \X (1..(NJ + 1))
    /\ gdim >= 2 =>
         Solved(2) = Transverse(1, IF gdim = 3 THEN NJ ELSE 1, gdim = 3)
                       \X (1..(NJ + 1))
                       \X Transverse(1, NJ, TRUE)
    /\ gdim = 3 =>
         Solved(3) = (1..(NJ + 1))
                       \X Transverse(1, NJ, TRUE)
                       \X Transverse(1, NJ, TRUE)
    /\ \A d \in 1..3 : d > gdim => Solved(d) = {}

\* C24 witness: the sweeps of a 2-D mesh are over, the x1 solve having covered
\* the ghost rows in x2
C24_Witness ==
  /\ gdir = 4 /\ gdim = 2
  /\ <<1, 0, 1>> \in Solved(1) /\ <<1, NJ + 1, 1>> \in Solved(1)
  /\ gran = {1, 2}

----------------------------------------------------------------------------
(* Termination of CalcFluxes                                                *)

\* the team barriers of a kernel: three in x1; two for every index of the
\* x2 or x3 loop, js-1 included, and one after the loop
BarrierCount(dir) == IF dir = 1 THEN 3 ELSE 2 * (NJ + 2) + 1

TeamDone == \A t \in Threads : thr[t].pc = "done"

\* C28: a CalcFluxes call terminates: the kernels all complete and the call
\* returns, every thread of a team leaves its kernel, no thread is more
\* than one barrier ahead of another, and every thread that has left has
\* met the same number of barriers, the solve skipped at the first index of
\* the x2 and x3 loops notwithstanding
C28_Terminates ==
  /\ <>[](gdir = 4 /\ TeamDone)
  /\ [](\A t \in Threads : \A u \in Threads : thr[t].nb - thr[u].nb \in {0 - 1, 0, 1})
  /\ [](\A t \in Threads : thr[t].pc = "done" => thr[t].nb = BarrierCount(team_dir))
  /\ [](\A t \in Threads : thr[t].j <= je + 1)

\* C28 witness: the call has returned and the threads of an x3 team have left
\* their kernel after the barriers of every index of the loop
C28_Witness ==
  /\ gdir = 4 /\ team_dir = 3 /\ TeamDone
  /\ \A t \in Threads : thr[t].nb = 2 * (NJ + 2) + 1 /\ thr[t].j = je + 1

----------------------------------------------------------------------------
(* Properties of PrimToConsPt                                              *)

\* the conversions of the interface made so far
Converted == {x \in {conv.left, conv.right} : x # <<>>}

\* C25: both conversions of an interface start from the stored face value of
\* the normal component (over sqrt(det g)), never from a reconstructed one, and
\* return it densitized unchanged; the transverse components they return are
\* the reconstructed ones
C25_NormalFieldFromFace ==
  LET sdetg == Sqrt(GetDeterminant(face.g3d))
  IN  /\ \A x \in Converted :
           /\ x.b_in[face.dir] = Div(face.bx, sdetg)
           /\ x.b[face.dir] = face.bx
      /\ conv.left # <<>> =>
           \A c \in 1..3 : c # face.dir => conv.left.b[c] = face.bl[c]
      /\ conv.right # <<>> =>
           \A c \in 1..3 : c # face.dir => conv.right.b[c] = face.br[c]
      /\ (conv.left # <<>> /\ conv.right # <<>>) =>
           conv.left.b_in[face.dir] = conv.right.b_in[face.dir]

\* C25 witness: both states of an x2 interface are converted, the stored
\* normal component differing from both reconstructed ones, sqrt(det g) = 2
C25_Witness ==
  /\ conv.left # <<>> /\ conv.right # <<>>
  /\ face.dir = 2 /\ face.g3d = <<4, 1, 1>>
  /\ face.bx # face.bl[2] /\ face.bx # face.br[2] /\ face.bl[2] # face.br[2]
  /\ conv.left.b[2] = face.bx

----------------------------------------------------------------------------
(* Frame of the conversions from primitive to conserved variables          *)

\* the primitive floor triggers on the array values w
FloorTriggers(w) == ApplyPrimitiveFloor(ExtractPrim(w)).floor

\* C33 for PrimToCons: a cell's primitives are written only if the floor
\* triggered on the values the call found there; a cell whose floor did not
\* trigger has only its conserved variables written; nothing outside the
\* index range is written
C33_PrimToConsFrame ==
  call.op = "PrimToCons" =>
    \A c \in Cells :
      /\ c \notin Range(call) =>
           /\ ~klog[c].done /\ klog[c].written = {}
           /\ prim[c] = entry.prim[c] /\ cons[c] = entry.cons[c]
      /\ klog[c].done =>
           /\ "prim" \in klog[c].written => FloorTriggers(entry.prim[c])
           /\ ~FloorTriggers(entry.prim[c]) =>
                /\ prim[c] = entry.prim[c] /\ klog[c].written = {"cons"}
      /\ prim[c] # entry.prim[c] => FloorTriggers(entry.prim[c])
      /\ bcc0[c] = entry.bcc0[c] /\ fofc[c] = entry.fofc[c]

\* C33 for PrimToConsPt: the interface state is written only if the floor
\* triggered on it; otherwise it is left as reconstructed and only the
\* conserved output and the field are written
C33_PrimToConsPtFrame ==
  /\ conv.left # <<>> =>
       /\ face.wl = conv.left.w
       /\ "w" \in conv.left.written => FloorTriggers(conv.left.w_in)
       /\ ~FloorTriggers(conv.left.w_in) => conv.left.w = conv.left.w_in
       /\ conv.left.w # conv.left.w_in => FloorTriggers(conv.left.w_in)
  /\ conv.right # <<>> =>
       /\ face.wr = conv.right.w
       /\ "w" \in conv.right.written => FloorTriggers(conv.right.w_in)
       /\ ~FloorTriggers(conv.right.w_in) => conv.right.w = conv.right.w_in
       /\ conv.right.w # conv.right.w_in => FloorTriggers(conv.right.w_in)

\* C33: PrimToCons and PrimToConsPt change the primitives they are given only
\* where the primitive floor triggered, write nothing but the conserved output
\* where it did not, and PrimToCons writes no cell outside its index range;
\* a conversion of one state of an interface leaves the other state, the
\* reconstructed fields and the face field alone
C33_FloorOnlyWrites ==
  /\ [](C33_PrimToConsFrame /\ C33_PrimToConsPtFrame)
  /\ [][/\ face'.bl = face.bl /\ face'.br = face.br /\ face'.bx = face.bx
        /\ conv'.left = conv.left => face'.wl = face.wl
        /\ conv'.right = conv.right => face'.wr = face.wr
        /\ \A c \in Cells : (prim'[c] # prim[c] \/ cons'[c] # cons[c]) => c \in todo]_vars

\* C33 witness: a PrimToCons call over part of the grid has returned, having
\* floored one cell and left another of its range as it was, and an interface
\* has had its left state floored and its right state left alone
C33_Witness ==
  /\ pc = "idle" /\ call.op = "PrimToCons" /\ Range(call) # Cells
  /\ \E c \in Range(call) : klog[c].floor /\ prim[c] # entry.prim[c]
  /\ conv.left # <<>> /\ conv.right # <<>>
  /\ conv.left.w # conv.left.w_in /\ conv.right.w = conv.right.w_in
  /\ "w" \notin conv.right.written

----------------------------------------------------------------------------
(* Properties of HydroAddTasks                                             *)

\* C34: once HydroAddTasks has returned, the list holds exactly seven more
\* tasks, CopyConserved, HydroDivFlux, HydroUpdate, HydroSend, NewTimeStep,
\* HydroReceive and ConToPrim in that order, the first depending on the start
\* task and each other on the one before it; their ids are appended to the
\* vector in that order; and in the execution of the list no task starts
\* before the one it depends on has completed, so ConToPrim starts after
\* HydroReceive has completed and HydroSend after HydroUpdate has
C34_TaskChain ==
  LET n0 == Len(addt.entry_tl)
  IN  (addt.step = 16 /\ addt.ids # <<>>) =>
        /\ Len(tl) = n0 + 7
        /\ [k \in 1..7 |-> tl[n0 + k].fn] =
             <<"CopyConserved", "HydroDivFlux", "HydroUpdate", "HydroSend",
               "NewTimeStep", "HydroReceive", "ConToPrim">>
        /\ tl[n0 + 1].dep = addt.start
        /\ \A k \in 2..7 : tl[n0 + k].dep = n0 + k - 1
        /\ \A i \in 1..n0 : /\ tl[i].fn = addt.entry_tl[i].fn
                             /\ tl[i].dep = addt.entry_tl[i].dep
        /\ added = addt.entry_added \o [k \in 1..7 |-> n0 + k]
        /\ \A k \in 2..7 : tl[n0 + k].started => tl[n0 + k - 1].complete
        /\ tl[n0 + 7].started => tl[n0 + 6].complete
        /\ tl[n0 + 4].started => tl[n0 + 3].complete
        /\ (tl[n0 + 1].started /\ addt.start # 0) => tl[addt.start].complete

\* C34 witness: the tasks were added to a list of two tasks, after the first
\* of them, and the list has run until ConToPrim completed
C34_Witness ==
  /\ addt.step = 16 /\ Len(addt.entry_tl) = 2 /\ addt.start = 1
  /\ Len(tl) = 9 /\ tl[9].complete /\ tl[8].complete
  /\ Len(added) = 8

----------------------------------------------------------------------------
(* Properties of the linear index                                          *)

\* the cells of the range of the call
RangeCells ==
  {<<m, k, j, i>> : m \in 0..(dec.nmb - 1), k \in dec.kl..dec.ku,
                    j \in dec.jl..dec.ju, i \in dec.il..dec.iu}

\* C30: every iteration works on a cell of the range, no two iterations work
\* on the same cell, and when all iterations have run every cell of the range
\* has been worked on
C30_DecodeBijective ==
  /\ \A v \in visits : v[2] \in RangeCells
  /\ \A v \in visits : \A w \in visits : v[2] = w[2] => v[1] = w[1]
  /\ iter = {} => {v[2] : v \in visits} = RangeCells

\* C30 witness: the reduction over a range of two blocks with more than one
\* cell in x1 and in x3 and non-zero lower limits is complete
C30_Witness ==
  /\ iter = {} /\ dec.nmb = 2 /\ dec.iu > dec.il /\ dec.ku > dec.kl
  /\ dec.il > 0 /\ Cardinality(visits) = Strides(dec).nmkji

----------------------------------------------------------------------------
(* Properties of the threads of a team                                     *)

\* the index whose reconstruction fills wl for the solve at index j: x1
\* reconstructs wl at j itself, x2 and x3 reconstruct it as wl_jp1 at j-1
WlIndex(dir, j) == IF dir = 1 THEN j ELSE j - 1

\* C20: every Riemann solve reads left and right states that the
\* reconstruction of every thread has finished writing for this sweep index,
\* and every scalar upwinding at an index where the solve runs reads a mass
\* flux the solve has finished writing
C20_StagesSeparated ==
  \A t \in Threads :
    /\ tlog[t].stage = "solve" =>
         /\ tlog[t].wl = WlIndex(team_dir, tlog[t].j)
         /\ tlog[t].wr = tlog[t].j
    /\ (tlog[t].stage = "upwind" /\ SolveRuns(team_dir, tlog[t].j)) =>
         tlog[t].flx = "solved"
    /\ thr[t].pc = "solve" =>
         \A u \in Threads : tscr[WR][ReconLane(u)] = thr[t].j
    /\ (thr[t].pc = "upwind" /\ SolveRuns(team_dir, thr[t].j)) =>
         \A u \in Threads : tflx[thr[t].j][SolveLane(u)] = "solved"

\* C21: in every direction a team barrier follows the scalar upwinding of each
\* sweep index: while a thread has still to upwind the scalars of index j no
\* thread has reconstructed for a later index, and every upwind reads a right
\* state written by the reconstruction of its own index
C21_BarrierAfterUpwind ==
  \A t \in Threads :
    /\ (team_scalars /\ thr[t].pc = "upwind") =>
         \A i \in Lanes : tscr[WR][i] <= thr[t].j
    /\ tlog[t].stage = "upwind" => tlog[t].wr = tlog[t].j

\* C23: in the x2 and x3 sweeps, at every index j after the first the buffers
\* bound to wl and bl are the ones bound to wl_jp1 and bl_jp1 at j-1, the
\* binding alternates with the parity of j, left, next-left and right are three
\* distinct buffers, and the solve at j reads in wl and bl what the
\* reconstruction at j-1 wrote, nothing having written there since
C23_BufferRotation ==
  /\ team_dir # 1 =>
       \A j \in SweepIndices :
         /\ Cardinality({WL(team_dir, j), WLnext(team_dir, j), WR}) = 3
         /\ Cardinality({BL(team_dir, j), BLnext(team_dir, j), BR}) = 3
         /\ j > js - 1 =>
              /\ WL(team_dir, j) = WLnext(team_dir, j - 1)
              /\ BL(team_dir, j) = BLnext(team_dir, j - 1)
              /\ WL(team_dir, j) # WL(team_dir, j - 1)
              /\ BL(team_dir, j) # BL(team_dir, j - 1)
  /\ \A t \in Threads :
       (team_dir # 1 /\ tlog[t].stage = "solve") =>
         /\ tlog[t].wl = tlog[t].j - 1
         /\ tlog[t].bl = tlog[t].j - 1
  /\ \A t \in Threads :
       (team_dir # 1 /\ thr[t].pc = "solve" /\ thr[t].j > js - 1) =>
         \A i \in Lanes : /\ tscr[WL(team_dir, thr[t].j)][i] = thr[t].j - 1
                          /\ tscr[BL(team_dir, thr[t].j)][i] = thr[t].j - 1

\* C23 witness: in the x3 sweep a solve at the last index has read, as left
\* state, the buffer the reconstruction of the index before wrote
C23_Witness ==
  /\ team_dir = 3
  /\ \E t \in Threads :
       /\ tlog[t].stage = "solve" /\ tlog[t].j = je + 1
       /\ WL(3, je + 1) # WL(3, je) /\ tlog[t].wl = je

\* C32: for every reconstruction method, the left and right states and fields
\* a Riemann solve reads at sweep index j were written by the team's
\* reconstruction earlier in the sweep (right at j; left at j in x1 and at j-1
\* in x2 and x3), none is scratch memory nothing has written, and the faces
\* the solve reads are among the faces the reconstruction writes
C32_SolveReadsReconstructed ==
  /\ \A t \in Threads :
       tlog[t].stage = "solve" =>
         /\ {tlog[t].wl, tlog[t].wr, tlog[t].bl, tlog[t].br}
              \subseteq (SweepIndices \cup {js})
         /\ tlog[t].wr = tlog[t].j /\ tlog[t].br = tlog[t].j
         /\ tlog[t].wl = (IF team_dir = 1 THEN tlog[t].j ELSE tlog[t].j - 1)
         /\ tlog[t].bl = tlog[t].wl
  /\ \A t \in Threads :
       (thr[t].pc = "solve" /\ SolveRuns(team_dir, thr[t].j)) =>
         \A i \in Lanes : \A b \in {WL(team_dir, thr[t].j), WR, BL(team_dir, thr[t].j), BR} :
           tscr[b][i] # Unwritten
  /\ SolveFaces(team_dir) \subseteq (ReconFaces(team_dir).l \cap ReconFaces(team_dir).r)

\* C32 witness: with a method other than donor cell or piecewise linear, a
\* solve of the x2 sweep has read its four interface states at the index
\* after the first
C32_Witness ==
  /\ team_recon \in {"ppm4", "ppmx", "wenoz"} /\ team_dir = 2
  /\ \E t \in Threads :
       /\ tlog[t].stage = "solve" /\ tlog[t].j = js
       /\ tlog[t].wl = js - 1 /\ tlog[t].wr = js

\* C20 witness: in the x2 sweep at index je one thread has solved a lane that
\* another thread reconstructed and one thread has upwinded scalars
C20_Witness ==
  /\ team_dir = 2 /\ team_scalars
  /\ \E t \in Threads : tlog[t].stage = "solve" /\ tlog[t].j = je
                        /\ tlog[t].lane # ReconLane(t)
  /\ \E u \in Threads : tlog[u].stage = "upwind" /\ tlog[u].j = je
                        /\ tlog[u].flx = "solved"

====
